---- MODULE Spec2Model ----
(***************************************************************************)
(* Command execution of the MCP server: authorization, sanitizing, shell   *)
(* classification, construction of the child-process invocation and the    *)
(* completion of the request, for the entry points of the repository:      *)
(*   - commandHelpers.executeCommand behind POST /command/execute          *)
(*     (src/test-direct-powershell.js),                                    *)
(*   - global.executeCommand / safeExecuteCommand / start*Process          *)
(*     (src/unnamed/part_003),                                             *)
(*   - safeExecuteCommand of the enhanced module (src/enhanced-mcp.js),    *)
(*   - runPowerShellCommand (src/test-direct-powershell.js),               *)
(* and, beside them, GET /files/read, copyFile and moveFile, the           *)
(* transformation of the configuration and the file watcher tools.         *)
(*                                                                         *)
(* A JavaScript string is modelled as the sequence of its UTF-16 code      *)
(* units, each code unit written as a one-character TLA+ string; the       *)
(* Japanese code unit of the alphabet is written "U3053"                   *)
(* (HIRAGANA LETTER KO), and the backtick, which a TLA+ string cannot      *)
(* hold, is written "U0060". The code units a byte-order mark is made of   *)
(* are written "UFEFF", "U00EF", "U00BB", "U00BF", "U00FF" and "U00FE",    *)
(* and the replacement character "UFFFD".                                  *)
(***************************************************************************)
EXTENDS Integers, Sequences, FiniteSets, TLC

VARIABLES
  platform,   \* process.platform of the host
  config,     \* the loaded configuration: config.security and, where a
              \* specification uses them, config.utils.enableBackups and
              \* the names applyPlatformSpecificConfig added
  req,        \* one record per request: its input, position and result
  fileHelpers,  \* the isPathAllowed the server has installed
  disk,       \* the files of the host and the backups made of them
  fileOp,     \* the copyFile or moveFile call in progress and its result
  watch       \* the watchers, the listeners attached and activeListeners

\* the variables the command handlers leave alone
fileVars == <<fileHelpers, disk, fileOp, watch>>

vars == <<platform, config, req, fileHelpers, disk, fileOp, watch>>

-----------------------------------------------------------------------------
(* Bounds of the model *)

\* number of requests that may be in flight together (specification Spec)
NumRequests == 2
\* a generated command is the concatenation of at most MaxAtoms atoms
MaxAtoms == 2
\* security.maxCommandLength of the configuration TightConfig
TightMaxCommandLength == 10
\* number of chunks a spawned child writes at most
MaxChunks == 2

-----------------------------------------------------------------------------
(* Characters and strings *)

\* the printable ASCII characters, code units 32..126, in order
Ascii ==
  <<" ", "!", "\"", "#", "$", "%", "&", "'", "(", ")", "*", "+", ",", "-",
    ".", "/", "0", "1", "2", "3", "4", "5", "6", "7", "8", "9", ":", ";",
    "<", "=", ">", "?", "@", "A", "B", "C", "D", "E", "F", "G", "H", "I",
    "J", "K", "L", "M", "N", "O", "P", "Q", "R", "S", "T", "U", "V", "W",
    "X", "Y", "Z", "[", "\\", "]", "^", "_", "U0060", "a", "b", "c", "d", "e",
    "f", "g", "h", "i", "j", "k", "l", "m", "n", "o", "p", "q", "r", "s",
    "t", "u", "v", "w", "x", "y", "z", "{", "|", "}", "~">>

\* the code unit of every printable ASCII character
AsciiCode ==
  [c \in {Ascii[i] : i \in 1..Len(Ascii)} |->
     31 + (CHOOSE i \in 1..Len(Ascii) : Ascii[i] = c)]

\* String.prototype.charCodeAt for one code unit
CharCode(c) ==
  CASE c = "U3053" -> 12371
    [] c = "\n" -> 10
    [] c = "\t" -> 9
    [] c = "UFEFF" -> 65279
    [] c = "UFFFD" -> 65533
    [] c = "U00FF" -> 255
    [] c = "U00FE" -> 254
    [] c = "U00EF" -> 239
    [] c = "U00BB" -> 187
    [] c = "U00BF" -> 191
    [] OTHER -> AsciiCode[c]

\* String.fromCharCode for one code unit; a code unit outside the alphabet is
\* written "#" followed by its number
FromCharCode(n) ==
  CASE n = 12371 -> "U3053"
    [] n = 10 -> "\n"
    [] n = 9 -> "\t"
    [] n = 65279 -> "UFEFF"
    [] n = 65533 -> "UFFFD"
    [] n = 255 -> "U00FF"
    [] n = 254 -> "U00FE"
    [] n = 239 -> "U00EF"
    [] n = 187 -> "U00BB"
    [] n = 191 -> "U00BF"
    [] n >= 32 /\ n <= 126 -> Ascii[n - 31]
    [] OTHER -> "#" \o ToString(n)

\* the characters the regular-expression class \s and trim() treat as blank
IsWhitespace(c) == c \in {" ", "\t", "\n"}

\* String.prototype.toLowerCase, one code unit
LowerChar(c) ==
  LET n == CharCode(c) IN IF n >= 65 /\ n <= 90 THEN FromCharCode(n + 32) ELSE c

\* String.prototype.toLowerCase
ToLowerCase(s) == [i \in 1..Len(s) |-> LowerChar(s[i])]

\* String.prototype.startsWith
StartsWith(s, p) == Len(p) <= Len(s) /\ SubSeq(s, 1, Len(p)) = p

\* String.prototype.includes for a single character
Includes(s, c) == \E i \in 1..Len(s) : s[i] = c

\* String.prototype.trim
RECURSIVE TrimStart(_)
TrimStart(s) ==
  IF s # <<>> /\ IsWhitespace(Head(s)) THEN TrimStart(Tail(s)) ELSE s

RECURSIVE TrimEnd(_)
TrimEnd(s) ==
  IF s # <<>> /\ IsWhitespace(s[Len(s)])
    THEN TrimEnd(SubSeq(s, 1, Len(s) - 1))
    ELSE s

Trim(s) == TrimEnd(TrimStart(s))

\* s.split(/\s+/)[0]: the characters of s before its first run of blanks
RECURSIVE SplitFirst(_)
SplitFirst(s) ==
  IF s = <<>> \/ IsWhitespace(Head(s))
    THEN <<>>
    ELSE <<Head(s)>> \o SplitFirst(Tail(s))

\* s.replace(/[U0060$]/g, ''): every backtick and dollar sign removed
RemoveBacktickDollar(s) == SelectSeq(s, LAMBDA c : c \notin {"U0060", "$"})

\* s.replace(/"/g, '\\"'): a backslash put before every double quote
RECURSIVE EscapeQuotes(_)
EscapeQuotes(s) ==
  IF s = <<>> THEN <<>>
  ELSE IF Len(s) = 1 THEN (IF s[1] = "\"" THEN <<"\\", "\"">> ELSE s)
  ELSE EscapeQuotes(SubSeq(s, 1, Len(s) \div 2))
         \o EscapeQuotes(SubSeq(s, Len(s) \div 2 + 1, Len(s)))

\* s.replace(/\$/g, 'U0060$'): a backtick put before every dollar sign
RECURSIVE BacktickDollars(_)
BacktickDollars(s) ==
  IF s = <<>> THEN <<>>
  ELSE IF Len(s) = 1 THEN (IF s[1] = "$" THEN <<"U0060", "$">> ELSE s)
  ELSE BacktickDollars(SubSeq(s, 1, Len(s) \div 2))
         \o BacktickDollars(SubSeq(s, Len(s) \div 2 + 1, Len(s)))

-----------------------------------------------------------------------------
(* Buffer.from(s, 'utf16le').toString('base64') and its inverse *)

Base64Alphabet ==
  <<"A", "B", "C", "D", "E", "F", "G", "H", "I", "J", "K", "L", "M", "N",
    "O", "P", "Q", "R", "S", "T", "U", "V", "W", "X", "Y", "Z", "a", "b",
    "c", "d", "e", "f", "g", "h", "i", "j", "k", "l", "m", "n", "o", "p",
    "q", "r", "s", "t", "u", "v", "w", "x", "y", "z", "0", "1", "2", "3",
    "4", "5", "6", "7", "8", "9", "+", "/">>

\* the bytes of s with the high byte of every code unit first
Utf16beEncode(s) ==
  [i \in 1..(2 * Len(s)) |->
     IF i % 2 = 1 THEN CharCode(s[(i + 1) \div 2]) \div 256
                  ELSE CharCode(s[i \div 2]) % 256]

\* Buffer.from(s, 'utf16le'): low byte, then high byte, of every code unit
Utf16leEncode(s) ==
  [i \in 1..(2 * Len(s)) |->
     IF i % 2 = 1 THEN CharCode(s[(i + 1) \div 2]) % 256
                  ELSE CharCode(s[i \div 2]) \div 256]

\* Buffer.toString('utf16le')
Utf16leDecode(b) ==
  [i \in 1..(Len(b) \div 2) |-> FromCharCode(b[2 * i - 1] + 256 * b[2 * i])]

Sextet(n) == Base64Alphabet[n + 1]

\* byte i of b, 0 past its end
ByteAt(b, i) == IF i <= Len(b) THEN b[i] ELSE 0

\* Buffer.toString('base64'): three bytes to four characters, '=' padding
Base64Encode(b) ==
  [j \in 1..(4 * ((Len(b) + 2) \div 3)) |->
     LET g == (j - 1) \div 4
         k == (j - 1) % 4
         b1 == ByteAt(b, 3 * g + 1)
         b2 == ByteAt(b, 3 * g + 2)
         b3 == ByteAt(b, 3 * g + 3)
     IN  CASE k = 0 -> Sextet(b1 \div 4)
           [] k = 1 -> Sextet((b1 % 4) * 16 + b2 \div 16)
           [] k = 2 -> IF 3 * g + 2 > Len(b) THEN "="
                       ELSE Sextet((b2 % 16) * 4 + b3 \div 64)
           [] OTHER -> IF 3 * g + 3 > Len(b) THEN "=" ELSE Sextet(b3 % 64)]

\* the six bits every character of the base64 alphabet stands for
SextetOf ==
  [c \in {Base64Alphabet[i] : i \in 1..64} |->
     (CHOOSE i \in 1..64 : Base64Alphabet[i] = c) - 1]

SextetValue(c) == IF c = "=" THEN 0 ELSE SextetOf[c]

\* the number of '=' characters at the end of t
Padding(t) ==
  IF Len(t) >= 2 /\ t[Len(t) - 1] = "=" THEN 2
  ELSE IF Len(t) >= 1 /\ t[Len(t)] = "=" THEN 1
  ELSE 0

\* Buffer.from(t, 'base64')
Base64Decode(t) ==
  [i \in 1..(3 * (Len(t) \div 4) - Padding(t)) |->
     LET g == (i - 1) \div 3
         k == (i - 1) % 3
         v1 == SextetValue(t[4 * g + 1])
         v2 == SextetValue(t[4 * g + 2])
         v3 == SextetValue(t[4 * g + 3])
         v4 == SextetValue(t[4 * g + 4])
     IN  CASE k = 0 -> v1 * 4 + v2 \div 16
           [] k = 1 -> (v2 % 16) * 16 + v3 \div 4
           [] OTHER -> (v3 % 4) * 64 + v4]

-----------------------------------------------------------------------------
(* Configuration: config.security *)

Star == <<"*">>

\* the configuration used when config.json cannot be read
DefaultConfig ==
  [allowedCommands |->
     {<<"d", "i", "r">>,
      <<"t", "y", "p", "e">>,
      <<"e", "c", "h", "o">>,
      <<"m", "k", "d", "i", "r">>,
      <<"r", "m", "d", "i", "r">>,
      <<"d", "e", "l">>,
      <<"c", "o", "p", "y">>,
      <<"m", "o", "v", "e">>},
   blockedCommands |-> {<<"f", "o", "r", "m", "a", "t">>,
                        <<"s", "h", "u", "t", "d", "o", "w", "n">>,
                        <<"t", "a", "s", "k", "k", "i", "l", "l">>},
   maxCommandLength |-> 1000]

\* the configuration file shipped with the repository
FileConfig ==
  [allowedCommands |->
     {<<"d", "i", "r">>,
      <<"t", "y", "p", "e">>,
      <<"e", "c", "h", "o">>,
      <<"m", "k", "d", "i", "r">>,
      <<"r", "m", "d", "i", "r">>,
      <<"d", "e", "l">>,
      <<"c", "o", "p", "y">>,
      <<"m", "o", "v", "e">>,
      <<"G", "e", "t", "-", "D", "a", "t", "e">>,
      <<"S", "e", "t", "-", "D", "a", "t", "e">>,
      <<"W", "r", "i", "t", "e", "-", "O", "u", "t", "p", "u", "t">>,
      <<"G", "e", "t", "-", "C", "o", "n", "t", "e", "n", "t">>,
      <<"G", "e", "t", "-", "C", "h", "i", "l", "d", "I", "t", "e", "m">>,
      <<"p", "o", "w", "e", "r", "s", "h", "e", "l", "l">>,
      Star},
   blockedCommands |-> {<<"f", "o", "r", "m", "a", "t">>,
                        <<"s", "h", "u", "t", "d", "o", "w", "n">>,
                        <<"t", "a", "s", "k", "k", "i", "l", "l">>},
   maxCommandLength |-> 1000]

\* a configuration an operator may write: everything allowed, one command
\* both allowed and blocked, and a short maximum command length
TightConfig ==
  [allowedCommands |-> {Star, <<"f", "o", "r", "m", "a", "t">>},
   blockedCommands |-> {<<"f", "o", "r", "m", "a", "t">>},
   maxCommandLength |-> TightMaxCommandLength]

Configs == {DefaultConfig, FileConfig, TightConfig}

Platforms == {"win32", "linux"}

-----------------------------------------------------------------------------
(* commandHelpers: authorization, sanitizing and shell classification *)

\* command.trim().split(/\s+/)[0].toLowerCase()
baseCommand(command) == ToLowerCase(SplitFirst(Trim(command)))

\* isCommandAllowed consulting the allow-list before the block-list
isCommandAllowedAllowFirst(cfg, command) ==
  IF baseCommand(command) \in cfg.allowedCommands
       \/ Star \in cfg.allowedCommands
    THEN TRUE
    ELSE FALSE

\* isCommandAllowed without the '*' wildcard
isCommandAllowedNoWildcard(cfg, command) ==
  IF baseCommand(command) \in cfg.blockedCommands THEN FALSE
  ELSE baseCommand(command) \in cfg.allowedCommands

isCommandAllowed(cfg, command) ==
  IF baseCommand(command) \in cfg.blockedCommands THEN FALSE
  ELSE baseCommand(command) \in cfg.allowedCommands
         \/ Star \in cfg.allowedCommands

\* sanitizeCommand with a length check that lets one more character through
sanitizeCommandOffByOne(cfg, command) ==
  IF Len(command) > cfg.maxCommandLength + 1
    THEN [threw |-> TRUE, value |-> <<>>]
    ELSE [threw |-> FALSE, value |-> RemoveBacktickDollar(command)]

\* sanitizeCommand: threw is TRUE when the length check throws
sanitizeCommand(cfg, command) ==
  IF Len(command) > cfg.maxCommandLength
    THEN [threw |-> TRUE, value |-> <<>>]
    ELSE [threw |-> FALSE, value |-> RemoveBacktickDollar(command)]

\* the alternatives of the regular expression that detects PowerShell
PowerShellPrefixes ==
  {<<"p", "o", "w", "e", "r", "s", "h", "e", "l", "l">>,
   <<"p", "w", "s", "h">>,
   <<"i", "n", "v", "o", "k", "e", "-">>,
   <<"g", "e", "t", "-">>,
   <<"s", "e", "t", "-">>,
   <<"n", "e", "w", "-">>,
   <<"t", "e", "s", "t", "-">>,
   <<"f", "o", "r", "m", "a", "t", "-">>,
   <<"o", "u", "t", "-">>,
   <<"i", "m", "p", "o", "r", "t", "-">>,
   <<"e", "x", "p", "o", "r", "t", "-">>,
   <<"c", "o", "n", "v", "e", "r", "t", "-">>,
   <<"u", "p", "d", "a", "t", "e", "-">>,
   <<"s", "e", "l", "e", "c", "t", "-">>,
   <<"w", "h", "e", "r", "e", "-">>,
   <<"w", "r", "i", "t", "e", "-">>,
   <<"r", "e", "a", "d", "-">>,
   <<"a", "d", "d", "-">>,
   <<"r", "e", "m", "o", "v", "e", "-">>,
   <<"f", "o", "r", "e", "a", "c", "h", "-">>,
   <<"s", "t", "a", "r", "t", "-">>,
   <<"s", "t", "o", "p", "-">>,
   <<"s", "u", "s", "p", "e", "n", "d", "-">>,
   <<"r", "e", "s", "u", "m", "e", "-">>,
   <<"w", "a", "i", "t", "-">>}

\* isPowerShell without toLowerCase
isPowerShellCaseSensitive(sanitizedCommand) ==
  \E p \in PowerShellPrefixes : StartsWith(sanitizedCommand, p)

isPowerShell(sanitizedCommand) ==
  \E p \in PowerShellPrefixes : StartsWith(ToLowerCase(sanitizedCommand), p)

\* ^p\s+q: p, at least one blank, then q
StartsWithBlankThen(s, p, q) ==
  /\ StartsWith(s, p)
  /\ LET rest == SubSeq(s, Len(p) + 1, Len(s))
     IN  rest # TrimStart(rest) /\ StartsWith(TrimStart(rest), q)

\* /^(bash|sh|git\s+bash|\.\/|source\s+|\.sh)/ on the lower-cased command
isGitBash(sanitizedCommand) ==
  LET s == ToLowerCase(sanitizedCommand)
  IN  \/ StartsWith(s, <<"b", "a", "s", "h">>)
      \/ StartsWith(s, <<"s", "h">>)
      \/ StartsWithBlankThen(s, <<"g", "i", "t">>, <<"b", "a", "s", "h">>)
      \/ StartsWith(s, <<".", "/">>)
      \/ StartsWithBlankThen(s, <<"s", "o", "u", "r", "c", "e">>, <<>>)
      \/ StartsWith(s, <<".", "s", "h">>)

-----------------------------------------------------------------------------
(* The texts the code builds command lines and scripts from *)

ChcpPrefix == <<"c", "h", "c", "p", " ", "6", "5", "0", "0", "1", " ", ">",
    "n", "u", "l">>

PowerShellEncodedInvocation ==
  <<" ", "&", "&", " ", "p", "o", "w", "e", "r", "s", "h", "e", "l", "l",
    ".", "e", "x", "e", " ", "-", "N", "o", "P", "r", "o", "f", "i", "l",
    "e", " ", "-", "N", "o", "n", "I", "n", "t", "e", "r", "a", "c", "t",
    "i", "v", "e", " ", "-", "N", "o", "L", "o", "g", "o", " ", "-", "E",
    "x", "e", "c", "u", "t", "i", "o", "n", "P", "o", "l", "i", "c", "y",
    " ", "B", "y", "p", "a", "s", "s", " ", "-", "E", "n", "c", "o", "d",
    "e", "d", "C", "o", "m", "m", "a", "n", "d", " ">>

PowerShellCommandInvocation ==
  <<" ", "&", "&", " ", "p", "o", "w", "e", "r", "s", "h", "e", "l", "l",
    ".", "e", "x", "e", " ", "-", "N", "o", "P", "r", "o", "f", "i", "l",
    "e", " ", "-", "N", "o", "n", "I", "n", "t", "e", "r", "a", "c", "t",
    "i", "v", "e", " ", "-", "E", "x", "e", "c", "u", "t", "i", "o", "n",
    "P", "o", "l", "i", "c", "y", " ", "B", "y", "p", "a", "s", "s", " ",
    "-", "C", "o", "m", "m", "a", "n", "d", " ">>

AndAnd == <<" ", "&", "&", " ">>

\* the path used when PROGRAMFILES is not set
gitBashPath == <<"C", ":", "\\", "P", "r", "o", "g", "r", "a", "m", " ", "F",
    "i", "l", "e", "s", "\\", "G", "i", "t", "\\", "b", "i", "n", "\\", "b",
    "a", "s", "h", ".", "e", "x", "e">>

EnhancedPowerShellInvocation ==
  <<"c", "h", "c", "p", " ", "6", "5", "0", "0", "1", " ", ">", "n", "u",
    "l", " ", "&", "&", " ", "p", "o", "w", "e", "r", "s", "h", "e", "l",
    "l", ".", "e", "x", "e", " ", "-", "N", "o", "P", "r", "o", "f", "i",
    "l", "e", " ", "-", "E", "x", "e", "c", "u", "t", "i", "o", "n", "P",
    "o", "l", "i", "c", "y", " ", "B", "y", "p", "a", "s", "s", " ", "-",
    "E", "n", "c", "o", "d", "e", "d", "C", "o", "m", "m", "a", "n", "d",
    " ">>

EnhancedPwshInvocation == <<"p", "w", "s", "h", " ", "-", "N", "o", "P", "r",
    "o", "f", "i", "l", "e", " ", "-", "C", "o", "m", "m", "a", "n", "d",
    " ", "\"">>

EnhancedBashInvocation == <<"b", "a", "s", "h", " ", "-", "c", " ", "\"">>

EnhancedCmdInvocation == <<"c", "h", "c", "p", " ", "6", "5", "0", "0", "1",
    " ", ">", "n", "u", "l", " ", "&", "&", " ", "c", "m", "d", ".", "e",
    "x", "e", " ", "/", "c", " ", "\"">>

CmdEncodingPrefix == <<"c", "h", "c", "p", " ", "6", "5", "0", "0", "1", " ",
    ">", " ", "n", "u", "l", " ", "&", "&", " ">>

encodingPrefix ==
  <<"[", "C", "o", "n", "s", "o", "l", "e", "]", ":", ":", "O", "u", "t",
    "p", "u", "t", "E", "n", "c", "o", "d", "i", "n", "g", " ", "=", " ",
    "[", "S", "y", "s", "t", "e", "m", ".", "T", "e", "x", "t", ".", "E",
    "n", "c", "o", "d", "i", "n", "g", "]", ":", ":", "U", "T", "F", "8",
    ";", " ">>

bomDetectionPrefix ==
  <<"$", "O", "u", "t", "p", "u", "t", "E", "n", "c", "o", "d", "i", "n",
    "g", " ", "=", " ", "N", "e", "w", "-", "O", "b", "j", "e", "c", "t",
    " ", "-", "t", "y", "p", "e", "n", "a", "m", "e", " ", "S", "y", "s",
    "t", "e", "m", ".", "T", "e", "x", "t", ".", "U", "T", "F", "8", "E",
    "n", "c", "o", "d", "i", "n", "g", " ", "-", "a", "r", "g", "u", "m",
    "e", "n", "t", "l", "i", "s", "t", " ", "$", "f", "a", "l", "s", "e",
    ";", " ">>

\* The multi-line script templates are kept in shortened form: each block of
\* the template is one line that holds the block's special characters.
\* the block that sets the console and pipeline encodings to UTF-8
EncodingDirective == <<"$", "O", "u", "t", "p", "u", "t", "E", "n", "c", "o",
    "d", "i", "n", "g", "=", "U", "T", "F", "8", ";", "\n">>

\* the block that sets $PSDefaultParameterValues
OutFileEncodingDirective == <<"$", "P", "S", "D", "e", "f", "a", "u", "l",
    "t", "P", "a", "r", "a", "m", "e", "t", "e", "r", "V", "a", "l", "u",
    "e", "s", "=", "u", "t", "f", "8", ";", "\n">>

\* the culture block inside try { } catch {}
CultureDirectiveTry == <<"t", "r", "y", "{", "C", "u", "l", "t", "u", "r",
    "e", "=", "j", "a", "-", "J", "P", "}", "c", "a", "t", "c", "h", "{",
    "}", "\n">>

\* the culture block without try
CultureDirective == <<"C", "u", "l", "t", "u", "r", "e", "=", "j", "a", "-",
    "J", "P", ";", "\n">>

\* if ($LASTEXITCODE -ne $null -and $LASTEXITCODE -ne 0) { ... exit }
ExitCodeCheck == <<"i", "f", "(", "$", "L", "A", "S", "T", "E", "X", "I",
    "T", "C", "O", "D", "E", " ", "-", "n", "e", " ", "0", ")", "{", "e",
    "x", "i", "t", " ", "$", "L", "A", "S", "T", "E", "X", "I", "T", "C",
    "O", "D", "E", "}", "\n">>


-----------------------------------------------------------------------------
(* The options of the child-process calls *)

\* A JavaScript object is a function from its keys to its values; the object
\* without keys is <<>>.
\* { ...a, ...b }
Spread(a, b) ==
  [k \in (DOMAIN a) \cup (DOMAIN b) |-> IF k \in DOMAIN b THEN b[k] ELSE a[k]]

\* ...options.env, which spreads nothing when options has no env
EnvOf(options) == IF "env" \in DOMAIN options THEN options.env ELSE <<>>

\* process.env of the server
ProcessEnv == [PATH |-> "C:\\Windows\\System32"]

\* 20 * 1024 * 1024
MaxBuffer == 20 * 1024 * 1024

\* the maxBuffer of child_process.exec when the options name none
DefaultMaxBuffer == 1024 * 1024

\* the options of exec in commandHelpers.executePowerShellCommand
powerShellExecOptions ==
  [encoding |-> "utf8",
   shell |-> "cmd.exe",
   env |-> Spread(ProcessEnv,
                  [LANG |-> "ja_JP.UTF-8", LC_ALL |-> "ja_JP.UTF-8",
                   LC_CTYPE |-> "ja_JP.UTF-8",
                   POWERSHELL_TELEMETRY_OPTOUT |-> "1",
                   PYTHONIOENCODING |-> "utf-8", PYTHONUTF8 |-> "1"]),
   maxBuffer |-> MaxBuffer]

\* the options of exec in the Git Bash branch of commandHelpers.executeCommand
gitBashExecOptions ==
  [shell |-> "cmd.exe",
   env |-> Spread(ProcessEnv,
                  [LANG |-> "ja_JP.UTF-8", LC_ALL |-> "ja_JP.UTF-8",
                   LC_CTYPE |-> "ja_JP.UTF-8",
                   PYTHONIOENCODING |-> "utf-8", PYTHONUTF8 |-> "1",
                   TERM |-> "xterm-256color",
                   MSYS |-> "winsymlinks:nativestrict",
                   MSYSTEM |-> "MINGW64"]),
   maxBuffer |-> MaxBuffer]

\* the options of exec in the CMD branch of commandHelpers.executeCommand
cmdExecOptions ==
  [shell |-> "cmd.exe",
   env |-> Spread(ProcessEnv,
                  [LANG |-> "ja_JP.UTF-8", LC_ALL |-> "ja_JP.UTF-8",
                   LC_CTYPE |-> "ja_JP.UTF-8",
                   PYTHONIOENCODING |-> "utf-8", PYTHONUTF8 |-> "1"]),
   maxBuffer |-> MaxBuffer]

\* the env object startPowerShellProcess and startCmdProcess build
startProcessEnv(options) ==
  Spread(Spread(ProcessEnv,
                [PYTHONIOENCODING |-> "utf-8", LANG |-> "ja_JP.UTF-8",
                 LC_ALL |-> "ja_JP.UTF-8"]),
         EnvOf(options))

\* the env object startGitBashProcess builds
startGitBashEnv(options) ==
  Spread(Spread(ProcessEnv,
                [PYTHONIOENCODING |-> "utf-8", LANG |-> "ja_JP.UTF-8",
                 LC_ALL |-> "ja_JP.UTF-8", TERM |-> "xterm-256color"]),
         EnvOf(options))

\* the options of spawn in the three start functions:
\* { env, shell: true, windowsHide: true, maxBuffer, ...options, stdio }
spawnOptions(env, options) ==
  Spread(Spread([env |-> env, shell |-> "true", windowsHide |-> "true",
                 maxBuffer |-> MaxBuffer],
                options),
         [stdio |-> "pipe"])

\* defaultOptions of safeExecuteCommand of enhanced-mcp.js
enhancedDefaultOptions ==
  [encoding |-> "utf8",
   maxBuffer |-> MaxBuffer,
   windowsHide |-> "true",
   env |-> Spread(ProcessEnv,
                  [LANG |-> "ja_JP.UTF-8", LC_ALL |-> "ja_JP.UTF-8",
                   PYTHONIOENCODING |-> "utf-8", PYTHONUTF8 |-> "1"])]

\* mergedOptions of safeExecuteCommand of enhanced-mcp.js
enhancedMergedOptions(options) == Spread(enhancedDefaultOptions, options)

\* the number of bytes of output after which exec kills the child; spawn has
\* no such limit, whatever its maxBuffer option says
ExecBufferCap(options) ==
  IF "maxBuffer" \in DOMAIN options THEN options.maxBuffer ELSE DefaultMaxBuffer
-----------------------------------------------------------------------------
(* The child-process invocations *)

\* An invocation is the call that starts the child process:
\*   call   "exec" (child_process.exec) or "spawn" (child_process.spawn)
\*   file   the executable given to spawn (empty for exec)
\*   param  the parameter of file that carries the command (empty for exec)
\*   text   exec: the command line; spawn: the argument that follows param
\*   shell  the shell option: a shell name, "true", or "" when absent
\*   script the PowerShell script that was encoded (empty when none was)
\*   options the options object of the call
NoInvocation ==
  [call |-> "none", file |-> "", param |-> "", text |-> <<>>, shell |-> "",
   script |-> <<>>, options |-> <<>>]

\* the script of commandHelpers.executePowerShellCommand, after .trim()
PowerShellScript(command) ==
  Trim(EncodingDirective \o OutFileEncodingDirective \o CultureDirectiveTry
         \o command \o <<"\n">>)

\* EncodeCommand with the default encoding of Buffer.from, one byte for each
\* ASCII character
EncodeCommandDefaultEncoding(script) ==
  Base64Encode([i \in 1..Len(script) |-> CharCode(script[i]) % 256])

\* Buffer.from(script, 'utf16le').toString('base64')
EncodeCommand(script) == Base64Encode(Utf16leEncode(script))

\* commandHelpers.executePowerShellCommand: the exec call it makes
executePowerShellCommand(command) ==
  [call |-> "exec", file |-> "", param |-> "",
   text |-> ChcpPrefix \o PowerShellEncodedInvocation
              \o EncodeCommand(PowerShellScript(command)),
   shell |-> "cmd.exe",
   script |-> PowerShellScript(command),
   options |-> powerShellExecOptions]

\* commandHelpers.executeCommand, Git Bash branch: the exec call it makes
executeGitBashCommand(sanitizedCommand) ==
  [call |-> "exec", file |-> "", param |-> "",
   text |-> gitBashPath \o <<" ", "-", "c", " ", "\"">> \o EscapeQuotes(sanitizedCommand) \o <<"\"">>,
   shell |-> "cmd.exe",
   script |-> <<>>,
   options |-> gitBashExecOptions]

\* needsPowerShellWrapper that forgets the semicolon
needsPowerShellWrapperPipeOnly(sanitizedCommand) ==
  Includes(sanitizedCommand, "|")

\* whether the CMD branch sends the command through powershell.exe -Command
needsPowerShellWrapper(sanitizedCommand) ==
  Includes(sanitizedCommand, "|") \/ Includes(sanitizedCommand, ";")

\* commandHelpers.executeCommand, CMD branch: fullCommand
fullCommand(sanitizedCommand) ==
  IF needsPowerShellWrapper(sanitizedCommand)
    THEN ChcpPrefix \o PowerShellCommandInvocation
           \o <<"\"">> \o EscapeQuotes(sanitizedCommand) \o <<"\"">>
    ELSE ChcpPrefix \o AndAnd \o sanitizedCommand

\* the shell option of the CMD branch of commandHelpers.executeCommand
cmdBranchShell(host) == "cmd.exe"

\* commandHelpers.executeCommand, CMD branch: the exec call it makes
executeCmdCommand(host, sanitizedCommand) ==
  [call |-> "exec", file |-> "", param |-> "",
   text |-> fullCommand(sanitizedCommand),
   shell |-> cmdBranchShell(host),
   script |-> <<>>,
   options |-> cmdExecOptions]

\* the branch commandHelpers.executeCommand takes for a sanitized command
classify(sanitizedCommand) ==
  IF isPowerShell(sanitizedCommand) THEN "powershell"
  ELSE IF isGitBash(sanitizedCommand) THEN "gitbash"
  ELSE "cmd"

\* startPowerShellProcess: the spawn call it makes
startPowerShellProcess(command, options) ==
  [call |-> "spawn", file |-> "powershell.exe", param |-> "-Command",
   text |-> encodingPrefix \o bomDetectionPrefix \o command,
   shell |-> "true",
   script |-> <<>>,
   options |-> spawnOptions(startProcessEnv(options), options)]

\* startCmdProcess: the spawn call it makes
startCmdProcess(command, options) ==
  [call |-> "spawn", file |-> "cmd.exe", param |-> "/c",
   text |-> CmdEncodingPrefix \o command,
   shell |-> "true",
   script |-> <<>>,
   options |-> spawnOptions(startProcessEnv(options), options)]

\* startGitBashProcess: the spawn call it makes (GIT_BASH_PATH not set)
startGitBashProcess(command, options) ==
  [call |-> "spawn", file |-> "C:\\Program Files\\Git\\bin\\bash.exe", param |-> "-c",
   text |-> command,
   shell |-> "true",
   script |-> <<>>,
   options |-> spawnOptions(startGitBashEnv(options), options)]

\* safeExecuteCommand of part_003 without toLowerCase
safeExecuteCommandCaseSensitive(shellType) ==
  CASE shellType = <<"p", "o", "w", "e", "r", "s", "h", "e", "l", "l">> -> "powershell"
    [] shellType = <<"c", "m", "d">> -> "cmd"
    [] shellType = <<"g", "i", "t", "b", "a", "s", "h">> -> "gitbash"
    [] OTHER -> "throw"

\* safeExecuteCommand of part_003: the start function its switch selects,
\* "throw" for the default case
safeExecuteCommand(shellType) ==
  CASE ToLowerCase(shellType) = <<"p", "o", "w", "e", "r", "s", "h", "e",
                                  "l", "l">> -> "powershell"
    [] ToLowerCase(shellType) = <<"c", "m", "d">> -> "cmd"
    [] ToLowerCase(shellType) = <<"g", "i", "t", "b", "a", "s", "h">> -> "gitbash"
    [] OTHER -> "throw"

\* the script safeExecuteCommand of enhanced-mcp.js encodes on win32
EnhancedPowerShellScript(command) ==
  BacktickDollars(<<"\n">> \o EncodingDirective \o CultureDirective
                    \o OutFileEncodingDirective \o command
                    \o <<"\n", "\n">> \o ExitCodeCheck)

\* safeExecuteCommand of enhanced-mcp.js: the case its switch selects
enhancedCase(shell) ==
  CASE ToLowerCase(shell) = <<"p", "o", "w", "e", "r", "s", "h", "e", "l",
                              "l">> -> "powershell"
    [] ToLowerCase(shell) = <<"b", "a", "s", "h">> -> "bash"
    [] OTHER -> "default"

\* safeExecuteCommand of enhanced-mcp.js: the exec call it makes
enhancedExecCall(host, shell, command, options) ==
  CASE enhancedCase(shell) = "powershell" /\ host = "win32" ->
         [call |-> "exec", file |-> "", param |-> "",
          text |-> EnhancedPowerShellInvocation
                     \o EncodeCommand(EnhancedPowerShellScript(command)),
          shell |-> "",
          script |-> EnhancedPowerShellScript(command),
          options |-> enhancedMergedOptions(options)]
    [] enhancedCase(shell) = "powershell" /\ host # "win32" ->
         [call |-> "exec", file |-> "", param |-> "",
          text |-> EnhancedPwshInvocation \o EscapeQuotes(command) \o <<"\"">>,
          shell |-> "",
          script |-> <<>>,
          options |-> enhancedMergedOptions(options)]
    [] enhancedCase(shell) = "bash" ->
         [call |-> "exec", file |-> "", param |-> "",
          text |-> EnhancedBashInvocation \o EscapeQuotes(command) \o <<"\"">>,
          shell |-> "",
          script |-> <<>>,
          options |-> enhancedMergedOptions(options)]
    [] OTHER ->
         [call |-> "exec", file |-> "", param |-> "",
          text |-> IF host = "win32"
                     THEN EnhancedCmdInvocation \o command \o <<"\"">>
                     ELSE command,
          shell |-> "",
          script |-> <<>>,
          options |-> enhancedMergedOptions(options)]

-----------------------------------------------------------------------------
(* The output of the child and the content of a file: decoding and the      *)
(* handling of a byte-order mark                                            *)

\* bytes are the numbers 0..255
IsContinuation(b) == b >= 128 /\ b <= 191

\* the character a multi-byte sequence at the head of b stands for and the
\* number of its bytes; a byte that starts no sequence becomes U+FFFD
\* (sequences cut short are not among the inputs)
Utf8Sequence(b) ==
  IF b[1] >= 224 /\ b[1] <= 239 /\ Len(b) >= 3
     /\ IsContinuation(b[2]) /\ IsContinuation(b[3])
    THEN [char |-> FromCharCode((b[1] - 224) * 4096 + (b[2] - 128) * 64
                                  + (b[3] - 128)),
          bytes |-> 3]
  ELSE IF b[1] >= 194 /\ b[1] <= 223 /\ Len(b) >= 2 /\ IsContinuation(b[2])
    THEN [char |-> FromCharCode((b[1] - 192) * 64 + (b[2] - 128)), bytes |-> 2]
  ELSE [char |-> "UFFFD", bytes |-> 1]

\* Buffer.toString('utf8') and the decoding exec and setEncoding('utf-8') do:
\* the ASCII bytes up to the first other byte, the character of the sequence
\* that starts there, and the rest decoded likewise
RECURSIVE Utf8Decode(_)
Utf8Decode(b) ==
  IF \A i \in 1..Len(b) : b[i] < 128
    THEN [i \in 1..Len(b) |-> FromCharCode(b[i])]
    ELSE LET k == CHOOSE i \in 1..Len(b) :
                    b[i] >= 128 /\ \A j \in 1..(i - 1) : b[j] < 128
             q == Utf8Sequence(SubSeq(b, k, Len(b)))
         IN  [i \in 1..(k - 1) |-> FromCharCode(b[i])] \o <<q.char>>
               \o Utf8Decode(SubSeq(b, k + q.bytes, Len(b)))

\* output.slice(n)
Slice(output, n) == SubSeq(output, n + 1, Len(output))

\* output.charCodeAt(i), i counted from 0
CharCodeAt(output, i) == CharCode(output[i + 1])

\* processOutput of commandHelpers.executePowerShellCommand
processOutput(output) ==
  IF output = <<>> THEN <<>>
  ELSE IF CharCodeAt(output, 0) = 65279 THEN Slice(output, 1)
  ELSE IF Len(output) >= 2 /\ CharCodeAt(output, 0) = 255
          /\ CharCodeAt(output, 1) = 254
    THEN Slice(output, 2)
  ELSE IF Len(output) >= 3 /\ CharCodeAt(output, 0) = 239
          /\ CharCodeAt(output, 1) = 187 /\ CharCodeAt(output, 2) = 191
    THEN Slice(output, 3)
  ELSE output

\* processOutput of the Git Bash branch of commandHelpers.executeCommand
gitBashProcessOutput(output) ==
  IF output = <<>> THEN <<>>
  ELSE IF Len(output) >= 3 /\ CharCodeAt(output, 0) = 239
          /\ CharCodeAt(output, 1) = 187 /\ CharCodeAt(output, 2) = 191
    THEN Slice(output, 3)
  ELSE output

\* processOutput of the CMD branch of commandHelpers.executeCommand
cmdProcessOutput(output) ==
  IF output = <<>> THEN <<>>
  ELSE IF Len(output) >= 3 /\ CharCodeAt(output, 0) = 239
          /\ CharCodeAt(output, 1) = 187 /\ CharCodeAt(output, 2) = 191
    THEN Slice(output, 3)
  ELSE output

\* the processOutput of the branch that ran the command
processOutputOf(route, output) ==
  CASE route = "powershell" -> processOutput(output)
    [] route = "gitbash" -> gitBashProcessOutput(output)
    [] OTHER -> cmdProcessOutput(output)

\* GET /files/read, from readFileSync to the response: the content and the
\* encoding it reports. Buffer.toString returns '' when start is the length
\* of the buffer; otherwise it throws for 'utf16be', an encoding it does not
\* know, and the inner catch answers 403.
readFileContent(buffer) ==
  IF Len(buffer) >= 3 /\ buffer[1] = 239 /\ buffer[2] = 187 /\ buffer[3] = 191
    THEN [status |-> 200, content |-> Utf8Decode(SubSeq(buffer, 4, Len(buffer))),
          encoding |-> "utf8-bom", error |-> ""]
  ELSE IF Len(buffer) >= 2 /\ buffer[1] = 255 /\ buffer[2] = 254
    THEN [status |-> 200,
          content |-> Utf16leDecode(SubSeq(buffer, 3, Len(buffer))),
          encoding |-> "utf16le", error |-> ""]
  ELSE IF Len(buffer) >= 2 /\ buffer[1] = 254 /\ buffer[2] = 255
    THEN IF Len(buffer) = 2
           THEN [status |-> 200, content |-> <<>>, encoding |-> "utf16be",
                 error |-> ""]
           ELSE [status |-> 403, content |-> <<>>, encoding |-> "",
                 error |-> "Unknown encoding: utf16be"]
  ELSE [status |-> 200, content |-> Utf8Decode(buffer), encoding |-> "utf8",
        error |-> ""]

-----------------------------------------------------------------------------
(* formatErrorMessage of part_003 *)

IsDigit(c) == c \in {"0", "1", "2", "3", "4", "5", "6", "7", "8", "9"}

\* the index after the literal lit when s holds it at index i, 0 otherwise
AfterLiteral(s, i, lit) ==
  IF i >= 1 /\ i + Len(lit) - 1 <= Len(s) /\ SubSeq(s, i, i + Len(lit) - 1) = lit
    THEN i + Len(lit)
    ELSE 0

\* the index after the digits that start at index i (i itself when none does)
RECURSIVE AfterDigits(_, _)
AfterDigits(s, i) ==
  IF i >= 1 /\ i <= Len(s) /\ IsDigit(s[i]) THEN AfterDigits(s, i + 1) ELSE i

\* the index after the blanks that start at index i (i itself when none does)
RECURSIVE AfterBlanks(_, _)
AfterBlanks(s, i) ==
  IF i >= 1 /\ i <= Len(s) /\ IsWhitespace(s[i]) THEN AfterBlanks(s, i + 1) ELSE i

\* /At line:(\d+) char:(\d+)\s*\+/ at index i: the index after the match, 0
\* when there is none
AtLineMatch(s, i) ==
  LET a == AfterLiteral(s, i, <<"A", "t", " ", "l", "i", "n", "e", ":">>)
      b == AfterDigits(s, a)
      c == AfterLiteral(s, b, <<" ", "c", "h", "a", "r", ":">>)
      d == AfterDigits(s, c)
      e == AfterBlanks(s, d)
  IN  IF a = 0 \/ b = a \/ c = 0 \/ d = c THEN 0
      ELSE AfterLiteral(s, e, <<"+">>)

\* .replace(/At line:(\d+) char:(\d+)\s*\+/g, ''): the text before the
\* leftmost match, and the text after it with its matches removed
RECURSIVE RemoveAtLine(_)
RemoveAtLine(s) ==
  IF \A i \in 1..Len(s) : AtLineMatch(s, i) = 0 THEN s
  ELSE LET k == CHOOSE i \in 1..Len(s) :
                  /\ AtLineMatch(s, i) # 0
                  /\ \A j \in 1..(i - 1) : AtLineMatch(s, j) = 0
       IN  SubSeq(s, 1, k - 1)
             \o RemoveAtLine(SubSeq(s, AtLineMatch(s, k), Len(s)))

\* /\s+<label>\s+:.+/s at index i, where . matches every character: a match
\* reaches the end of s
LabelMatch(s, i, label) ==
  LET a == AfterBlanks(s, i)
      b == AfterLiteral(s, a, label)
      c == AfterBlanks(s, b)
      d == AfterLiteral(s, c, <<":">>)
  IN  a > i /\ b # 0 /\ c > b /\ d # 0 /\ d <= Len(s)

\* .replace(/\s+<label>\s+:.+/gs, ''): s up to its leftmost match
RemoveFromLabel(s, label) ==
  IF \E i \in 1..Len(s) : LabelMatch(s, i, label)
    THEN SubSeq(s, 1,
                (CHOOSE i \in 1..Len(s) :
                   /\ LabelMatch(s, i, label)
                   /\ \A j \in 1..(i - 1) : ~LabelMatch(s, j, label)) - 1)
    ELSE s

CategoryInfoLabel == <<"+", " ", "C", "a", "t", "e", "g", "o", "r", "y", "I",
    "n", "f", "o">>

FullyQualifiedErrorIdLabel == <<"+", " ", "F", "u", "l", "l", "y", "Q", "u",
    "a", "l", "i", "f", "i", "e", "d", "E", "r", "r", "o", "r", "I", "d">>

\* formatErrorMessage that strips the diagnostic blocks for every shell type
formatErrorMessageAllShells(error, shellType) ==
  IF error = <<>> THEN <<>>
  ELSE Trim(RemoveFromLabel(
              RemoveFromLabel(RemoveAtLine(error), CategoryInfoLabel),
              FullyQualifiedErrorIdLabel))

\* formatErrorMessage(error, shellType), error being a string or the message
\* of an Error
formatErrorMessage(error, shellType) ==
  IF error = <<>> THEN <<>>
  ELSE CASE ToLowerCase(shellType) = <<"p", "o", "w", "e", "r", "s", "h",
                                       "e", "l", "l">> ->
              Trim(RemoveFromLabel(
                     RemoveFromLabel(RemoveAtLine(error), CategoryInfoLabel),
                     FullyQualifiedErrorIdLabel))
         [] ToLowerCase(shellType) = <<"c", "m", "d">> -> Trim(error)
         [] ToLowerCase(shellType) = <<"g", "i", "t", "b", "a", "s", "h">> -> Trim(error)
         [] OTHER -> error

-----------------------------------------------------------------------------
(* Files, file operations and watchers: the state before any of them *)

\* no file operation in progress. destBefore is the destination as it was
\* when the operation was called (<<>> when there was none, <<file>>
\* otherwise), wrote tells that fs.copyFile or fs.rename has run, calls counts
\* the operations called so far.
NoFileOp ==
  [pc |-> "none", kind |-> "none", source |-> <<>>, dest |-> <<>>,
   options |-> <<>>, backupPath |-> <<>>, success |-> "none", error |-> "",
   destBefore |-> <<>>, wrote |-> FALSE, calls |-> 0]

\* no watcher, no listener. watchers is the set of the ids of the watchers
\* of fileWatcher, attached the set of the listeners attached to fileWatcher
\* (each with its event and the watcherId of its closure), active the Map
\* activeListeners, last the watcher tool called last and its answer.
NoWatch ==
  [watchers |-> {}, attached |-> {}, active |-> <<>>,
   last |-> [tool |-> "none", watcherId |-> 0, isError |-> FALSE]]

\* the files of the host: files is a function from the paths of the files
\* that exist to their content, dirs the set of the directories, backups the
\* set of the backups made. A file is its bytes and its size; a file given by
\* its size alone has no bytes that are followed.
InitialDisk == [files |-> <<>>, dirs |-> {}, backups |-> {}]

File(bytes) == [bytes |-> bytes, size |-> Len(bytes)]

\* { ...files, [path]: file }
WithFile(files, path, file) ==
  [k \in (DOMAIN files) \cup {path} |-> IF k = path THEN file ELSE files[k]]

\* files without the path
WithoutFile(files, path) == [k \in (DOMAIN files) \ {path} |-> files[k]]

\* config.fileOperations.maxFileSize
maxFileSize == 10485760

-----------------------------------------------------------------------------
(* Paths: path.normalize, CrossPlatformPath and the variants of              *)
(* fileHelpers.isPathAllowed                                                 *)

\* the characters path.normalize takes for separators, and path.sep
Separators(host) == IF host = "win32" THEN {"/", "\\"} ELSE {"/"}

Sep(host) == IF host = "win32" THEN "\\" ELSE "/"

\* the segments of p between its separators (empty segments included)
RECURSIVE SplitPath(_, _)
SplitPath(p, host) ==
  IF \A i \in 1..Len(p) : p[i] \notin Separators(host) THEN <<p>>
  ELSE LET k == CHOOSE i \in 1..Len(p) :
                  /\ p[i] \in Separators(host)
                  /\ \A j \in 1..(i - 1) : p[j] \notin Separators(host)
       IN  <<SubSeq(p, 1, k - 1)>> \o SplitPath(SubSeq(p, k + 1, Len(p)), host)

\* normalizeString of path.js: empty and '.' segments dropped, '..' removes
\* the segment before it; above the start it is dropped from an absolute path
\* and kept in a relative one
RECURSIVE ResolveDots(_, _, _)
ResolveDots(segs, acc, absolute) ==
  IF segs = <<>> THEN acc
  ELSE IF Head(segs) = <<>> \/ Head(segs) = <<".">>
    THEN ResolveDots(Tail(segs), acc, absolute)
  ELSE IF Head(segs) = <<".", ".">>
    THEN IF acc # <<>> /\ acc[Len(acc)] # <<".", ".">>
           THEN ResolveDots(Tail(segs), SubSeq(acc, 1, Len(acc) - 1), absolute)
         ELSE IF absolute THEN ResolveDots(Tail(segs), acc, absolute)
         ELSE ResolveDots(Tail(segs), Append(acc, Head(segs)), absolute)
  ELSE ResolveDots(Tail(segs), Append(acc, Head(segs)), absolute)

\* the segments joined by the separator
RECURSIVE JoinPath(_, _)
JoinPath(segs, sep) ==
  IF segs = <<>> THEN <<>>
  ELSE IF Len(segs) = 1 THEN segs[1]
  ELSE segs[1] \o <<sep>> \o JoinPath(Tail(segs), sep)

\* the root of p: a drive with a separator ('C:/') or a leading separator on
\* win32, a leading '/' elsewhere; <<>> for a relative path
RootOf(p, host) ==
  IF host = "win32" /\ Len(p) >= 3 /\ p[2] = ":" /\ p[3] \in Separators(host)
    THEN <<p[1], ":", Sep(host)>>
  ELSE IF p # <<>> /\ p[1] \in Separators(host) THEN <<Sep(host)>>
  ELSE <<>>

\* path.isAbsolute
isAbsolute(p, host) == RootOf(p, host) # <<>>

\* path.normalize of the host (paths with a drive but no separator after it,
\* and UNC paths, are not among the inputs)
pathNormalize(p, host) ==
  IF p = <<>> THEN <<".">>
  ELSE
    LET root == RootOf(p, host)
        rest == SubSeq(p, Len(root) + 1, Len(p))
        tail == JoinPath(ResolveDots(SplitPath(rest, host), <<>>, root # <<>>),
                         Sep(host))
        trailing == p[Len(p)] \in Separators(host)
    IN  IF tail = <<>>
          THEN IF root # <<>> THEN root
               ELSE IF trailing THEN <<".", Sep(host)>> ELSE <<".">>
          ELSE root \o tail \o (IF trailing THEN <<Sep(host)>> ELSE <<>>)

\* pathStr.replace(/\\/g, '/')
BackslashesToSlashes(p) == [i \in 1..Len(p) |-> IF p[i] = "\\" THEN "/" ELSE p[i]]

\* CrossPlatformPath.normalize
crossPlatformNormalize(inputPath, host) ==
  IF inputPath = <<>> THEN <<>>
  ELSE pathNormalize(IF host = "win32" THEN BackslashesToSlashes(inputPath)
                     ELSE inputPath,
                     host)

\* process.cwd() of the server
Cwd(host) == IF host = "win32" THEN <<"C", ":", "\\", "s", "r", "v">> ELSE <<"/", "s", "r", "v">>

\* p without the separators at its end, its root kept
RECURSIVE StripTrailingSeparators(_, _)
StripTrailingSeparators(p, host) ==
  IF Len(p) > Len(RootOf(p, host)) /\ p[Len(p)] \in Separators(host)
    THEN StripTrailingSeparators(SubSeq(p, 1, Len(p) - 1), host)
    ELSE p

\* path.resolve of one path
pathResolve(p, host) ==
  StripTrailingSeparators(
    IF isAbsolute(p, host) THEN pathNormalize(p, host)
    ELSE pathNormalize(Cwd(host) \o <<Sep(host)>> \o p, host),
    host)

\* CrossPlatformPath.isSubPath
isSubPath(parent, child, host) ==
  LET normalizedParent == crossPlatformNormalize(parent, host)
      normalizedChild == crossPlatformNormalize(child, host)
      resolvedParent == IF isAbsolute(normalizedParent, host)
                          THEN normalizedParent
                          ELSE pathResolve(normalizedParent, host)
      resolvedChild == IF isAbsolute(normalizedChild, host)
                         THEN normalizedChild
                         ELSE pathResolve(normalizedChild, host)
  IN  IF host = "win32"
        THEN \/ StartsWith(ToLowerCase(resolvedChild),
                           ToLowerCase(resolvedParent) \o <<Sep(host)>>)
             \/ ToLowerCase(resolvedChild) = ToLowerCase(resolvedParent)
        ELSE \/ StartsWith(resolvedChild, resolvedParent \o <<Sep(host)>>)
             \/ resolvedChild = resolvedParent

\* config.fileOperations.allowedPaths
allowedPaths ==
  {<<"C", ":", "/", "U", "s", "e", "r", "s", "/", "p", "r", "e", "l", "u",
     "d", "e", "/", "D", "e", "s", "k", "t", "o", "p">>,
   <<"C", ":", "/", "U", "s", "e", "r", "s", "/", "p", "r", "e", "l", "u",
     "d", "e", "/", "D", "o", "c", "u", "m", "e", "n", "t", "s">>}

\* fileHelpers.isPathAllowed of src/test-direct-powershell.js
isPathAllowed(filePath, host) ==
  \E allowedPath \in allowedPaths :
    StartsWith(pathNormalize(filePath, host), pathNormalize(allowedPath, host))

\* fileHelpers.isPathAllowed of src/server.js.bak
bakIsPathAllowed(filePath, host) ==
  \E allowedPath \in allowedPaths :
    StartsWith(crossPlatformNormalize(filePath, host),
               crossPlatformNormalize(allowedPath, host))

\* the isPathAllowed integratePathUtilities installs
integratedIsPathAllowed(filePath, host) ==
  \E allowedPath \in allowedPaths :
    isSubPath(crossPlatformNormalize(allowedPath, host),
              crossPlatformNormalize(filePath, host), host)

\* the isPathAllowed the server has installed
installedIsPathAllowed(helpers, filePath, host) ==
  CASE helpers = "startsWith" -> isPathAllowed(filePath, host)
    [] helpers = "crossPlatform" -> bakIsPathAllowed(filePath, host)
    [] OTHER -> integratedIsPathAllowed(filePath, host)

-----------------------------------------------------------------------------
(* The handlers, up to the start of the child process *)

\* what a handler has done when it returns to the event loop:
\*   steps    the calls it made, in order
\*   route    the branch that was selected ("none" when none was)
\*   spawns   the number of child processes it started
\*   inv      the invocation of the child process
\*   outcome  of the promise: "pending", "resolved" or "rejected"
\*   error    the error message, "" when there is none
\*   exitCode the exit code of the result, -1 when there is none
\*   settled  the number of times the promise was resolved or rejected
Rejected(steps, error) ==
  [steps |-> steps, route |-> "none", spawns |-> 0, inv |-> NoInvocation,
   outcome |-> "rejected", error |-> error, exitCode |-> -1, settled |-> 1]

Started(steps, route, inv) ==
  [steps |-> steps, route |-> route, spawns |-> 1, inv |-> inv,
   outcome |-> "pending", error |-> "", exitCode |-> -1, settled |-> 0]

\* a result returned from a catch block: no child, exit code 1
Caught(steps, route, error) ==
  [steps |-> steps, route |-> route, spawns |-> 0, inv |-> NoInvocation,
   outcome |-> "resolved", error |-> error, exitCode |-> 1, settled |-> 1]

\* commandHelpers.executeCommand, from its call to the return of exec
executeCommand(cfg, host, command) ==
  IF ~isCommandAllowed(cfg, command)
    THEN Rejected(<<"isCommandAllowed">>, "Command not allowed")
  ELSE IF sanitizeCommand(cfg, command).threw
    THEN Rejected(<<"isCommandAllowed", "sanitizeCommand">>,
                  "Command exceeds maximum allowed length")
  ELSE
    LET sanitizedCommand == sanitizeCommand(cfg, command).value
        route == classify(sanitizedCommand)
    IN  Started(<<"isCommandAllowed", "sanitizeCommand", "classify", "exec">>,
                route,
                CASE route = "powershell" ->
                       executePowerShellCommand(sanitizedCommand)
                  [] route = "gitbash" ->
                       executeGitBashCommand(sanitizedCommand)
                  [] OTHER -> executeCmdCommand(host, sanitizedCommand))

\* global.executeCommand, from its call to the await of the close event
globalExecuteCommand(shell, command) ==
  IF shell = <<>> \/ command = <<>>
    THEN Rejected(<<>>, "shell and command are required")
  ELSE IF safeExecuteCommand(shell) = "throw"
    THEN Caught(<<"safeExecuteCommand">>, "none", "unknown shell type")
  ELSE
    Started(<<"safeExecuteCommand", "spawn">>, safeExecuteCommand(shell),
            CASE safeExecuteCommand(shell) = "powershell" ->
                   startPowerShellProcess(command, <<>>)
              [] safeExecuteCommand(shell) = "cmd" ->
                   startCmdProcess(command, <<>>)
              [] OTHER -> startGitBashProcess(command, <<>>))

\* safeExecuteCommand of part_003 called with options: it throws for an
\* unknown shell type and returns the child process otherwise
partSafeExecuteCommand(shell, command, options) ==
  IF safeExecuteCommand(shell) = "throw"
    THEN Rejected(<<"safeExecuteCommand">>, "unknown shell type")
  ELSE
    Started(<<"safeExecuteCommand", "spawn">>, safeExecuteCommand(shell),
            CASE safeExecuteCommand(shell) = "powershell" ->
                   startPowerShellProcess(command, options)
              [] safeExecuteCommand(shell) = "cmd" ->
                   startCmdProcess(command, options)
              [] OTHER -> startGitBashProcess(command, options))

\* runPowerShellCommand, from its call to the await of the close event;
\* provided tells whether the module it requires has startPowerShellProcess
runPowerShellCommand(provided, command) ==
  IF ~provided
    THEN Caught(<<"startPowerShellProcess">>, "powershell",
                "startPowerShellProcess is not a function")
  ELSE Started(<<"startPowerShellProcess", "spawn">>, "powershell",
               startPowerShellProcess(command, <<>>))

\* safeExecuteCommand of enhanced-mcp.js, from its call to the return of exec
enhancedSafeExecuteCommand(host, shell, command, options) ==
  Started(<<"switch", "exec">>,
          IF enhancedCase(shell) = "powershell" /\ host # "win32"
            THEN "pwsh" ELSE enhancedCase(shell),
          enhancedExecCall(host, shell, command, options))

-----------------------------------------------------------------------------
(* Inputs *)

Requests == 1..NumRequests

\* the commands and shell names of the requests of specification Spec
SampleCommands ==
  {<<"f", "o", "r", "m", "a", "t", " ", "C", ":">>,
   <<"G", "e", "t", "-", "D", "a", "t", "e">>,
   <<"d", "i", "r", " ", "|", " ", "f", "i", "n", "d", " ", "x">>}

SampleShells == {<<"p", "o", "w", "e", "r", "s", "h", "e", "l", "l">>, <<"a", "u", "t", "o">>}

\* the options a caller passes: none, a lower and a higher maxBuffer, an env
\* with a variable of its own, an env that sets LANG
SampleOptions ==
  {<<>>,
   [maxBuffer |-> 1024],
   [maxBuffer |-> 2 * MaxBuffer],
   [env |-> [APP_MODE |-> "test"]],
   [env |-> [LANG |-> "C"]]}

\* the shell names of the requests of specification SpecRunner
RunnerShells == {<<"p", "o", "w", "e", "r", "s", "h", "e", "l", "l">>, <<"c", "m", "d">>, <<"b", "a", "s", "h">>, <<"a", "u", "t", "o">>}

\* the number of bytes a child writes to its standard output
OutputSizes == {0, MaxBuffer, MaxBuffer + 1}

\* what becomes of a child process: it exits with a code after writing size
\* bytes, or it could not be started. stdout and stderr are the bytes it
\* wrote when their text is followed; an output given by its size alone has
\* no text.
Exited(code, size) ==
  [kind |-> "exit", code |-> code, size |-> size, stdout |-> <<>>,
   stderr |-> <<>>]

\* a child that wrote the bytes out and err and exited with a code
Wrote(code, out, err) ==
  [kind |-> "exit", code |-> code, size |-> Len(out), stdout |-> out,
   stderr |-> err]

SpawnFailed ==
  [kind |-> "spawnError", code |-> -1, size |-> 0, stdout |-> <<>>,
   stderr |-> <<>>]

NoChild ==
  [kind |-> "none", code |-> -1, size |-> 0, stdout |-> <<>>, stderr |-> <<>>]

PlainFates == {Exited(0, 0), Exited(1, 0)}

ChildFates ==
  {Exited(code, size) : code \in {0, 1}, size \in OutputSizes} \cup {SpawnFailed}

\* the bytes a child writes for an ASCII text
Utf8Encode(s) == [i \in 1..Len(s) |-> CharCode(s[i])]

\* the byte-order marks as bytes
Utf8Bom == <<239, 187, 191>>

Utf16leBom == <<255, 254>>

Utf16beBom == <<254, 255>>

\* the commands of the requests of specification SpecOutput: one for every
\* branch of commandHelpers.executeCommand
OutputCommands ==
  {<<"G", "e", "t", "-", "D", "a", "t", "e">>,
   <<"d", "i", "r">>,
   <<"s", "h", " ", "x">>}

\* the shell names of the requests of specification SpecOutput
OutputShells ==
  {<<"p", "o", "w", "e", "r", "s", "h", "e", "l", "l">>,
   <<"P", "o", "w", "e", "r", "S", "h", "e", "l", "l">>,
   <<"c", "m", "d">>,
   <<"g", "i", "t", "b", "a", "s", "h">>,
   <<"a", "u", "t", "o">>}

\* what a child writes to its standard output: nothing, a text, the text
\* after one and after two UTF-8 byte-order marks, after the bytes FF FE,
\* and two texts that start with the characters U+00FF U+00FE and
\* U+00EF U+00BB U+00BF
StdoutSamples ==
  {<<>>,
   Utf8Encode(<<"o", "k">>),
   Utf8Bom \o Utf8Encode(<<"o", "k">>),
   Utf8Bom \o Utf8Bom \o Utf8Encode(<<"o", "k">>),
   Utf16leBom \o Utf8Encode(<<"o", "k">>),
   <<195, 191, 195, 190>> \o Utf8Encode(<<"o", "k">>),
   <<195, 175, 194, 187, 194, 191>> \o Utf8Encode(<<"o", "k">>)}

\* the pieces of an error record of PowerShell
ErrorText == <<"G", "e", "t", "-", "F", "o", "o", " ", ":", " ", "b", "a",
    "d", "\n">>

PositionText == <<"A", "t", " ", "l", "i", "n", "e", ":", "1", " ", "c", "h",
    "a", "r", ":", "1", "\n", "+", " ", "G", "e", "t", "-", "F", "o", "o",
    "\n">>

CategoryText == <<" ", " ", " ", " ", "+", " ", "C", "a", "t", "e", "g", "o",
    "r", "y", "I", "n", "f", "o", " ", ":", " ", "N", "o", "t", "F", "o",
    "u", "n", "d", "\n">>

ErrorIdText == <<" ", " ", " ", " ", "+", " ", "F", "u", "l", "l", "y", "Q",
    "u", "a", "l", "i", "f", "i", "e", "d", "E", "r", "r", "o", "r", "I",
    "d", " ", ":", " ", "C", "N", "F", "\n">>

\* what a child writes to its standard error in one chunk
StderrSamples ==
  {Utf8Encode(ErrorText),
   Utf8Encode(PositionText),
   Utf8Encode(CategoryText),
   Utf8Encode(ErrorText \o PositionText \o CategoryText \o ErrorIdText),
   Utf8Encode(<<" ", " ", "d", "i", "r", ":", " ", "x", " ", " ">>)}

\* the fates of the child of an exec call in specification SpecOutput
OutputFates ==
  {Wrote(code, out, err) :
     code \in {0, 1}, out \in StdoutSamples,
     err \in {<<>>, Utf8Bom \o Utf8Encode(<<"e">>)}}
    \cup {SpawnFailed, Exited(0, MaxBuffer + 1)}

\* the chunks and fates of specification SpecConcurrent
ConcurrentChunks == {Utf8Encode(<<"a">>), Utf8Encode(<<"b">>)}

ConcurrentFates ==
  {Wrote(0, Utf8Encode(<<"a">>), <<>>),
   Wrote(0, Utf8Encode(<<"b">>), Utf8Encode(<<"e">>)),
   Exited(1, 0)}

\* the files of specification SpecFiles: texts with and without byte-order
\* marks and a file larger than maxFileSize in an allowed directory, a file
\* in a sibling of it and a file above it
Desktop == <<"C", ":", "/", "U", "s", "e", "r", "s", "/", "p", "r", "e", "l",
    "u", "d", "e", "/", "D", "e", "s", "k", "t", "o", "p">>

SampleFiles ==
  {<<Desktop \o <<"/", "p", "l", "a", "i", "n", ".", "t", "x", "t">>, File(Utf8Encode(<<"o", "k">>))>>,
   <<Desktop \o <<"/", "b", "o", "m", "8", ".", "t", "x", "t">>, File(Utf8Bom \o Utf8Encode(<<"o", "k">>))>>,
   <<Desktop \o <<"/", "l", "e", ".", "t", "x", "t">>, File(Utf16leBom \o <<111, 0, 107, 0>>)>>,
   <<Desktop \o <<"/", "b", "e", ".", "t", "x", "t">>, File(Utf16beBom \o <<0, 111, 0, 107>>)>>,
   <<Desktop \o <<"/", "b", "e", "0", ".", "t", "x", "t">>, File(Utf16beBom)>>,
   <<Desktop \o <<"/", "b", "i", "g", ".", "b", "i", "n">>, [bytes |-> <<>>, size |-> maxFileSize + 1]>>,
   <<Desktop \o <<"2", "/", "x", ".", "t", "x", "t">>, File(Utf8Encode(<<"n", "o">>))>>,
   <<<<"C", ":", "/", "U", "s", "e", "r", "s", "/", "p", "r", "e", "l", "u",
       "d", "e", "/", "s", "e", "c", "r", "e", "t", ".", "t", "x", "t">>, File(Utf8Encode(<<"n", "o">>))>>}

\* the disk that holds the sample files under the paths of the host
SampleDisk(host) ==
  [files |->
     [k \in {pathNormalize(f[1], host) : f \in SampleFiles} |->
        (CHOOSE f \in SampleFiles : pathNormalize(f[1], host) = k)[2]],
   dirs |-> {pathNormalize(Desktop, host), pathNormalize(Desktop \o <<"2">>, host)},
   backups |-> {}]

\* the filePath of a request of GET /files/read: every sample file, the
\* allowed directory, a file that does not exist, a path that leaves the
\* allowed directory through '..', a path written with backslashes and no
\* path at all
SamplePaths ==
  {f[1] : f \in SampleFiles}
    \cup {Desktop,
          Desktop \o <<"/", "n", "o", "n", "e", ".", "t", "x", "t">>,
          Desktop \o <<"/", ".", ".", "/", "s", "e", "c", "r", "e", "t", ".",
                       "t", "x", "t">>,
          <<"C", ":", "\\", "U", "s", "e", "r", "s", "\\", "p", "r", "e",
            "l", "u", "d", "e", "\\", "D", "e", "s", "k", "t", "o", "p",
            "\\", "a", "\\", ".", ".", "\\", "p", "l", "a", "i", "n", ".",
            "t", "x", "t">>,
          <<>>}

\* the pieces the commands of specification SpecPipeline are made of
Atoms ==
  {<<"f", "o", "r", "m", "a", "t">>,
   <<" ">>,
   <<"G", "e", "t", "-", "D", "a", "t", "e">>,
   <<"b", "a", "s", "h">>,
   <<".", "s", "h">>,
   <<"e", "c", "h", "o">>,
   <<"|">>,
   <<";">>,
   <<"$">>,
   <<"\"">>,
   <<"U3053">>}

RECURSIVE AtomStrings(_)
AtomStrings(n) ==
  IF n = 0 THEN {<<>>}
  ELSE AtomStrings(n - 1) \cup {p \o a : p \in AtomStrings(n - 1), a \in Atoms}

GeneratedCommands == AtomStrings(MaxAtoms)

\* the shell names of the requests of SpecPipeline; <<>> is an absent shell
ShellHints ==
  {<<"p", "o", "w", "e", "r", "s", "h", "e", "l", "l">>,
   <<"P", "o", "w", "e", "r", "S", "h", "e", "l", "l">>,
   <<"c", "m", "d">>,
   <<"g", "i", "t", "b", "a", "s", "h">>,
   <<"b", "a", "s", "h">>,
   <<"p", "o", "s", "i", "x">>,
   <<"a", "u", "t", "o">>,
   <<>>}

-----------------------------------------------------------------------------
(* State and actions *)

\* the further fields of a request:
\*   stdout, stderr  the text collected from the child and, once the request
\*                   is done, the text of the result
\*   normalized      the functions that were applied to the text of the
\*                   result: "processOutput", "formatErrorMessage", "trim"
\*   child           what became of the child, NoChild while it runs
\*   dataEvents      the number of data events of the child so far
\*   content, encoding  of the response of GET /files/read
IdleRequest ==
  [pc |-> "idle", api |-> "none", command |-> <<>>, shell |-> <<>>,
   steps |-> <<>>, route |-> "none", spawns |-> 0, inv |-> NoInvocation,
   outcome |-> "pending", error |-> "", exitCode |-> -1, status |-> 0,
   settled |-> 0, success |-> "none", stdoutLen |-> 0, child |-> NoChild,
   stdout |-> <<>>, stderr |-> <<>>, normalized |-> {}, dataEvents |-> 0,
   content |-> <<>>, encoding |-> ""]

\* the server of src/test-direct-powershell.js after its start: no file
\* operation and no watcher yet
InitFiles ==
  /\ fileHelpers = "startsWith"
  /\ disk = InitialDisk
  /\ fileOp = NoFileOp
  /\ watch = NoWatch

Init ==
  /\ platform \in Platforms
  /\ config \in Configs
  /\ req = [r \in Requests |-> IdleRequest]
  /\ InitFiles

\* requests are numbered in the order of their arrival
MayArrive(r) ==
  /\ req[r].pc = "idle"
  /\ \A q \in Requests : q < r => req[q].pc # "idle"

\* the record of request r after its handler ran with effects e
Handled(api, command, shell, e, status) ==
  [pc |-> IF e.outcome = "pending" THEN "waiting" ELSE "done",
   api |-> api, command |-> command, shell |-> shell,
   steps |-> e.steps, route |-> e.route, spawns |-> e.spawns, inv |-> e.inv,
   outcome |-> e.outcome, error |-> e.error, exitCode |-> e.exitCode,
   status |-> status, settled |-> e.settled, success |-> "none",
   stdoutLen |-> 0, child |-> NoChild, stdout |-> <<>>, stderr |-> <<>>,
   normalized |-> {}, dataEvents |-> 0, content |-> <<>>, encoding |-> ""]

\* POST /command/execute with body {command}
HttpExecute(r, command) ==
  /\ MayArrive(r)
  /\ req' = [req EXCEPT ![r] =
       IF command = <<>>
         THEN [IdleRequest EXCEPT !.pc = "done", !.api = "http",
                                  !.error = "Command is required",
                                  !.status = 400]
         ELSE LET e == executeCommand(config, platform, command)
              IN  Handled("http", command, <<>>, e,
                          IF e.outcome = "rejected" THEN 403 ELSE 0)]
  /\ UNCHANGED <<platform, config, fileVars>>

\* the message of the Error safeExecuteCommand of part_003 throws
UnknownShellMessage(shellType) == <<"u", "n", "k", "n", "o", "w", "n", " ",
    "s", "h", "e", "l", "l", " ", "t", "y", "p", "e", ":", " ">> \o shellType

\* global.executeCommand({shell, command}); its catch block returns the
\* message of the error, passed through formatErrorMessage, as stderr
GlobalExecute(r, shell, command) ==
  /\ MayArrive(r)
  /\ req' = [req EXCEPT ![r] =
       LET e == globalExecuteCommand(shell, command)
           h == Handled("global", command, shell, e, 0)
       IN  IF e.outcome = "resolved"
             THEN [h EXCEPT !.stderr =
                              formatErrorMessage(UnknownShellMessage(shell),
                                                 shell),
                            !.normalized = {"formatErrorMessage"}]
             ELSE h]
  /\ UNCHANGED <<platform, config, fileVars>>

\* safeExecuteCommand(command, shell, options) of enhanced-mcp.js; the command
\* is not empty
EnhancedExecute(r, shell, command, options) ==
  /\ MayArrive(r)
  /\ command # <<>>
  /\ req' = [req EXCEPT ![r] =
       Handled("enhanced", command, shell,
               enhancedSafeExecuteCommand(platform, shell, command, options), 0)]
  /\ UNCHANGED <<platform, config, fileVars>>

\* safeExecuteCommand(command, shellType, options) of part_003, called by a
\* caller that waits for the close event of the child it gets
SafeExecute(r, shell, command, options) ==
  /\ MayArrive(r)
  /\ shell # <<>>
  /\ req' = [req EXCEPT ![r] =
       Handled("safe", command, shell,
               partSafeExecuteCommand(shell, command, options), 0)]
  /\ UNCHANGED <<platform, config, fileVars>>

\* runPowerShellCommand(command)
RunPowerShell(r, provided, command) ==
  /\ MayArrive(r)
  /\ req' = [req EXCEPT ![r] =
       [Handled("run", command, <<>>,
                runPowerShellCommand(provided, command), 0)
          EXCEPT !.success = IF provided THEN "none" ELSE "false",
                 !.stderr = IF provided THEN <<>>
                            ELSE <<"T", "y", "p", "e", "E", "r", "r", "o",
                                   "r", ":", " ", "s", "t", "a", "r", "t",
                                   "P", "o", "w", "e", "r", "S", "h", "e",
                                   "l", "l", "P", "r", "o", "c", "e", "s",
                                   "s", " ", "i", "s", " ", "n", "o", "t",
                                   " ", "a", " ", "f", "u", "n", "c", "t",
                                   "i", "o", "n">>]]
  /\ UNCHANGED <<platform, config, fileVars>>

\* GET /files/read?filePath=...: the status, the error and, for status 200,
\* the content and the encoding of the response
filesRead(helpers, host, files, filePath) ==
  LET validatedPath == pathNormalize(filePath, host)
      failed(status, error) ==
        [status |-> status, content |-> <<>>, encoding |-> "", error |-> error]
  IN  IF filePath = <<>> THEN failed(400, "File path is required")
      ELSE IF ~installedIsPathAllowed(helpers, filePath, host)
        THEN failed(403, "Access denied")
      ELSE IF validatedPath \in files.dirs
        THEN failed(400, "Cannot read directory content")
      ELSE IF validatedPath \notin DOMAIN files.files
        THEN failed(403, "ENOENT: no such file or directory")
      ELSE IF files.files[validatedPath].size > maxFileSize
        THEN failed(400, "File exceeds maximum allowed size")
      ELSE readFileContent(files.files[validatedPath].bytes)

\* the handler of GET /files/read
FilesRead(r, filePath) ==
  /\ MayArrive(r)
  /\ LET response == filesRead(fileHelpers, platform, disk, filePath)
     IN  req' = [req EXCEPT ![r] =
           [IdleRequest EXCEPT !.pc = "done", !.api = "read",
                               !.command = filePath,
                               !.status = response.status,
                               !.error = response.error,
                               !.content = response.content,
                               !.encoding = response.encoding]]
  /\ UNCHANGED <<platform, config, fileVars>>

\* integratePathUtilities of CrossPlatformIntegration: it replaces
\* server.fileHelpers.isPathAllowed
IntegratePathUtilities ==
  /\ fileHelpers # "isSubPath"
  /\ fileHelpers' = "isSubPath"
  /\ UNCHANGED <<platform, config, req, disk, fileOp, watch>>

\* ExecError that does not look at the exit code
ExecErrorIgnoresExitCode(options, fate) ==
  IF fate.kind = "spawnError" THEN "spawn ENOENT"
  ELSE IF fate.size > ExecBufferCap(options)
    THEN "stdout maxBuffer length exceeded"
  ELSE ""

\* the error exec passes to its callback, "" when it passes none: the child
\* could not be started, wrote more than maxBuffer bytes and was killed, or
\* exited with a code other than 0
ExecError(options, fate) ==
  IF fate.kind = "spawnError" THEN "spawn ENOENT"
  ELSE IF fate.size > ExecBufferCap(options)
    THEN "stdout maxBuffer length exceeded"
  ELSE IF fate.code # 0 THEN "Command failed"
  ELSE ""

\* ExecCallback that starts the command again when it failed
ExecCallbackRetries(r, fate) ==
  /\ req[r].pc = "waiting"
  /\ req[r].inv.call = "exec"
  /\ req' = [req EXCEPT ![r] =
       IF ExecError(req[r].inv.options, fate) # "" /\ req[r].spawns < 2
         THEN [@ EXCEPT !.spawns = @ + 1]
         ELSE [@ EXCEPT !.pc = "done", !.settled = @ + 1, !.child = fate,
                        !.outcome = "resolved"]]
  /\ UNCHANGED <<platform, config, fileVars>>

\* the callback of exec, fate being what became of the child
ExecCallback(r, fate) ==
  /\ req[r].pc = "waiting"
  /\ req[r].inv.call = "exec"
  /\ LET error == ExecError(req[r].inv.options, fate)
         cap == ExecBufferCap(req[r].inv.options)
     IN  req' = [req EXCEPT ![r] =
           [@ EXCEPT !.pc = "done",
                     !.outcome = IF error # "" THEN "rejected" ELSE "resolved",
                     !.error = error,
                     !.settled = @ + 1,
                     !.child = fate,
                     !.stdoutLen =
                       IF error = "" THEN fate.size
                       ELSE IF req[r].api = "http" THEN 0
                       ELSE IF fate.size > cap THEN cap ELSE fate.size,
                     !.stdout =
                       IF req[r].api = "http"
                         THEN IF error # "" THEN <<>>
                              ELSE processOutputOf(req[r].route,
                                                   Utf8Decode(fate.stdout))
                         ELSE Utf8Decode(fate.stdout),
                     !.stderr =
                       IF req[r].api = "http"
                         THEN IF error # "" THEN <<>>
                              ELSE processOutputOf(req[r].route,
                                                   Utf8Decode(fate.stderr))
                         ELSE Utf8Decode(fate.stderr),
                     !.normalized =
                       IF req[r].api = "http" /\ error = ""
                         THEN {"processOutput"} ELSE {},
                     !.success =
                       IF req[r].api = "http" /\ error = "" THEN "true"
                       ELSE "none",
                     !.status = IF req[r].api # "http" THEN 0
                                ELSE IF error # "" THEN 403 ELSE 200]]
  /\ UNCHANGED <<platform, config, fileVars>>

\* the text of the result the caller of a spawned child builds at the close
\* event: global.executeCommand passes stderr through formatErrorMessage,
\* runPowerShellCommand trims both texts, another caller takes them as
\* they are
ResultText(api, shell, stream, text) ==
  CASE api = "global" /\ stream = "stderr" -> formatErrorMessage(text, shell)
    [] api = "run" -> Trim(text)
    [] OTHER -> text

\* ChildData that appends the chunk to the text of every request that waits
\* for a spawned child
ChildDataShared(r, stream, chunk) ==
  /\ req[r].pc = "waiting"
  /\ req[r].inv.call = "spawn"
  /\ req[r].dataEvents < MaxChunks
  /\ req' = [q \in Requests |->
       IF req[q].pc = "waiting" /\ req[q].inv.call = "spawn"
         THEN [req[q] EXCEPT
                 !.dataEvents = IF q = r THEN @ + 1 ELSE @,
                 !.stdout = IF stream = "stdout" THEN @ \o Utf8Decode(chunk)
                            ELSE @,
                 !.stderr = IF stream = "stderr" THEN @ \o Utf8Decode(chunk)
                            ELSE @,
                 !.child = IF q # r THEN @
                           ELSE IF stream = "stdout"
                             THEN [@ EXCEPT !.stdout = @ \o chunk]
                             ELSE [@ EXCEPT !.stderr = @ \o chunk]]
         ELSE req[q]]
  /\ UNCHANGED <<platform, config, fileVars>>

\* a data event of the stdout or stderr stream of the spawned child of
\* request r: the listener appends the decoded chunk to the variable of its
\* own closure. child keeps the bytes the child wrote; a child writes at most
\* MaxChunks chunks.
ChildData(r, stream, chunk) ==
  /\ req[r].pc = "waiting"
  /\ req[r].inv.call = "spawn"
  /\ req[r].dataEvents < MaxChunks
  /\ req' = [req EXCEPT ![r] =
       [@ EXCEPT !.dataEvents = @ + 1,
                 !.stdout = IF stream = "stdout" THEN @ \o Utf8Decode(chunk)
                            ELSE @,
                 !.stderr = IF stream = "stderr" THEN @ \o Utf8Decode(chunk)
                            ELSE @,
                 !.child = IF stream = "stdout"
                             THEN [@ EXCEPT !.stdout = @ \o chunk]
                             ELSE [@ EXCEPT !.stderr = @ \o chunk]]]
  /\ UNCHANGED <<platform, config, fileVars>>

\* the close event of a spawned child that exited with a code after writing
\* size further bytes whose text is not followed: spawn has no limit on the
\* output the caller collects
ChildClose(r, code, size) ==
  /\ req[r].pc = "waiting"
  /\ req[r].inv.call = "spawn"
  /\ req' = [req EXCEPT ![r] =
       [@ EXCEPT !.pc = "done", !.outcome = "resolved", !.exitCode = code,
                 !.settled = @ + 1,
                 !.child = [req[r].child EXCEPT
                              !.kind = "exit", !.code = code,
                              !.size = size + Len(req[r].child.stdout)],
                 !.stdoutLen = size + Len(req[r].child.stdout),
                 !.stdout = ResultText(req[r].api, req[r].shell, "stdout", @),
                 !.stderr = ResultText(req[r].api, req[r].shell, "stderr", @),
                 !.normalized =
                   CASE req[r].api = "global" -> {"formatErrorMessage"}
                     [] req[r].api = "run" -> {"trim"}
                     [] OTHER -> {},
                 !.success = IF req[r].api # "run" THEN "none"
                             ELSE IF code = 0 THEN "true" ELSE "false"]]
  /\ UNCHANGED <<platform, config, fileVars>>

\* the error event of a child that spawn could not start. No caller listens
\* to it, so it is thrown as an uncaught exception: either the process ends
\* there, or a handler of uncaughtException keeps it alive and the close
\* event follows with the negative error number as code and the caller
\* builds its result from the empty texts. A child that was not started
\* wrote nothing.
ChildError(r, survives) ==
  /\ req[r].pc = "waiting"
  /\ req[r].inv.call = "spawn"
  /\ req[r].dataEvents = 0
  /\ req' = [req EXCEPT ![r] =
       IF survives
         THEN [@ EXCEPT !.pc = "done", !.outcome = "resolved",
                        !.exitCode = -2, !.settled = @ + 1,
                        !.child = SpawnFailed,
                        !.error = "spawn ENOENT",
                        !.normalized =
                          CASE req[r].api = "global" -> {"formatErrorMessage"}
                            [] req[r].api = "run" -> {"trim"}
                            [] OTHER -> {},
                        !.success = IF req[r].api = "run" THEN "false"
                                    ELSE "none"]
         ELSE [@ EXCEPT !.pc = "done", !.outcome = "crashed",
                        !.child = SpawnFailed,
                        !.error = "spawn ENOENT"]]
  /\ UNCHANGED <<platform, config, fileVars>>

\* a request arrives only when MayArrive holds: the guard is stated before the
\* inputs are drawn
Next ==
  \E r \in Requests :
    \/ MayArrive(r) /\ \E c \in SampleCommands : HttpExecute(r, c)
    \/ MayArrive(r) /\ \E c \in SampleCommands, s \in SampleShells :
                         GlobalExecute(r, s, c)
    \/ MayArrive(r) /\ \E c \in SampleCommands, s \in SampleShells :
                         EnhancedExecute(r, s, c, <<>>)
    \/ \E fate \in PlainFates : ExecCallback(r, fate)
    \/ \E code \in {0, 1} : ChildClose(r, code, 0)

Spec == Init /\ [][Next]_vars

\* one request, its command and shell drawn from the generated sets
NextPipeline ==
  \/ MayArrive(1) /\ \E c \in GeneratedCommands : HttpExecute(1, c)
  \/ MayArrive(1) /\ \E c \in GeneratedCommands, s \in ShellHints :
                       GlobalExecute(1, s, c)
  \/ MayArrive(1) /\ \E c \in GeneratedCommands, s \in ShellHints :
                       EnhancedExecute(1, s, c, <<>>)
  \/ \E fate \in PlainFates : ExecCallback(1, fate)
  \/ \E code \in {0, 1} : ChildClose(1, code, 0)

SpecPipeline == Init /\ [][NextPipeline]_vars

\* one request on any of the entry points, with the options of its caller,
\* and every fate of its child
NextRunner ==
  \/ MayArrive(1) /\ \E c \in SampleCommands : HttpExecute(1, c)
  \/ MayArrive(1) /\ \E c \in SampleCommands, s \in RunnerShells :
                       GlobalExecute(1, s, c)
  \/ MayArrive(1) /\ \E c \in SampleCommands, s \in RunnerShells,
                          o \in SampleOptions : EnhancedExecute(1, s, c, o)
  \/ MayArrive(1) /\ \E c \in SampleCommands, s \in RunnerShells,
                          o \in SampleOptions : SafeExecute(1, s, c, o)
  \/ MayArrive(1) /\ \E c \in SampleCommands, provided \in BOOLEAN :
                       RunPowerShell(1, provided, c)
  \/ \E fate \in ChildFates : ExecCallback(1, fate)
  \/ \E code \in {0, 1}, size \in OutputSizes : ChildClose(1, code, size)
  \/ \E survives \in BOOLEAN : ChildError(1, survives)

SpecRunner == Init /\ [][NextRunner]_vars

\* one request and the text its child writes
NextOutput ==
  \/ MayArrive(1) /\ \E c \in OutputCommands : HttpExecute(1, c)
  \/ MayArrive(1) /\ \E c \in OutputCommands, s \in OutputShells :
                       GlobalExecute(1, s, c)
  \/ MayArrive(1) /\ \E c \in OutputCommands, provided \in BOOLEAN :
                       RunPowerShell(1, provided, c)
  \/ \E fate \in OutputFates : ExecCallback(1, fate)
  \/ \E chunk \in StdoutSamples \ {<<>>} : ChildData(1, "stdout", chunk)
  \/ \E chunk \in StderrSamples : ChildData(1, "stderr", chunk)
  \/ \E code \in {0, 1} : ChildClose(1, code, 0)
  \/ \E survives \in BOOLEAN : ChildError(1, survives)

SpecOutput == Init /\ [][NextOutput]_vars

\* the server of specification SpecConcurrent
InitConcurrent ==
  /\ platform = "win32"
  /\ config = FileConfig
  /\ req = [r \in Requests |-> IdleRequest]
  /\ InitFiles

\* requests in flight together, the chunks of their children interleaved
NextConcurrent ==
  \E r \in Requests :
    \/ MayArrive(r) /\ HttpExecute(r, <<"G", "e", "t", "-", "D", "a", "t",
                                        "e">>)
    \/ MayArrive(r) /\ GlobalExecute(r, <<"c", "m", "d">>, <<"d", "i", "r">>)
    \/ \E fate \in ConcurrentFates : ExecCallback(r, fate)
    \/ \E chunk \in ConcurrentChunks : ChildData(r, "stdout", chunk)
    \/ ChildData(r, "stderr", Utf8Encode(<<"e">>))
    \/ \E code \in {0, 1} : ChildClose(r, code, 0)

SpecConcurrent == InitConcurrent /\ [][NextConcurrent]_vars

\* a server with the fileHelpers of src/test-direct-powershell.js or of
\* src/server.js.bak and the sample files on its disk
InitPaths ==
  /\ platform \in Platforms
  /\ config = DefaultConfig
  /\ req = [r \in Requests |-> IdleRequest]
  /\ fileHelpers \in {"startsWith", "crossPlatform"}
  /\ disk = SampleDisk(platform)
  /\ fileOp = NoFileOp
  /\ watch = NoWatch

\* requests of GET /files/read, before and after integratePathUtilities
NextPaths ==
  \/ \E r \in Requests :
       MayArrive(r) /\ \E filePath \in SamplePaths : FilesRead(r, filePath)
  \/ IntegratePathUtilities

SpecPaths == InitPaths /\ [][NextPaths]_vars
-----------------------------------------------------------------------------
(* copyFile and moveFile of the extended file operations *)

\* the number of file operations that are called
MaxFileOps == 2

\* securityConfig.blacklistedExtensions of initMCPFileOperations
blacklistedExtensions == {<<".", "e", "x", "e">>, <<".", "b", "a", "t">>, <<".", "c", "m", "d">>, <<".", "p", "s", "1">>, <<".", "s", "h">>, <<".", "c", "o", "m">>}

\* path.dirname of a path with at least one separator
pathDirname(p, host) ==
  LET last == CHOOSE i \in 1..Len(p) :
                /\ p[i] \in Separators(host)
                /\ \A j \in (i + 1)..Len(p) : p[j] \notin Separators(host)
  IN  SubSeq(p, 1, last - 1)

\* path.extname of a path whose last segment has a dot
pathExtname(p) ==
  IF \E i \in 1..Len(p) : p[i] = "."
    THEN LET last == CHOOSE i \in 1..Len(p) :
                       p[i] = "." /\ \A j \in (i + 1)..Len(p) : p[j] # "."
         IN  SubSeq(p, last, Len(p))
    ELSE <<>>

\* security.validatePath: the normalized path when it is an allowed path or
\* lies in one, a rejection otherwise
validatePath(p, host) ==
  LET normalized == [q \in {p} \cup allowedPaths |-> pathNormalize(q, host)]
  IN  IF \E allowedPath \in allowedPaths :
           \/ normalized[p] = normalized[allowedPath]
           \/ StartsWith(normalized[p], normalized[allowedPath] \o <<Sep(host)>>)
        THEN [ok |-> TRUE, path |-> normalized[p]]
        ELSE [ok |-> FALSE, path |-> <<>>]

\* security.isFileExtensionAllowed with the whitelist ['*']
isFileExtensionAllowed(p) == ToLowerCase(pathExtname(p)) \notin blacklistedExtensions

\* utils.createBackup when it succeeds: the backup of the file at the path
\* is added and its path, here its number, is returned
createBackup(files, p, operation) ==
  LET n == Cardinality(files.backups) + 1
  IN  [disk |-> [files EXCEPT !.backups =
                   @ \cup {[n |-> n, of |-> p, operation |-> operation,
                            file |-> files.files[p]]}],
       backupPath |-> <<n>>]

\* the catch of copyFile and moveFile: the operation rejects
FileOpFailed(op, message) ==
  [op EXCEPT !.pc = "done", !.success = FALSE, !.error = message]

\* copyFile and moveFile from their call to the check of the destination:
\* both paths are validated, the source is inspected, the extensions are
\* checked and the directory of the destination is created when missing
startFileOp(kind, op0, files, host, sourcePath, destinationPath, options) ==
  LET validated == [p \in {sourcePath, destinationPath} |->
                      validatePath(p, host)]
      validatedSource == validated[sourcePath]
      validatedDest == validated[destinationPath]
      op == [NoFileOp EXCEPT !.kind = kind, !.options = options,
                             !.source = validatedSource.path,
                             !.dest = validatedDest.path,
                             !.calls = op0.calls + 1,
                             !.destBefore =
                               IF validatedDest.path \in DOMAIN files.files
                                 THEN <<files.files[validatedDest.path]>>
                                 ELSE <<>>]
      destDir == pathDirname(validatedDest.path, host)
  IN  IF ~validatedSource.ok \/ ~validatedDest.ok
        THEN [fileOp |-> FileOpFailed(op, "path is not allowed"), disk |-> files]
      ELSE IF /\ validatedSource.path \notin DOMAIN files.files
              /\ ~(kind = "move" /\ validatedSource.path \in files.dirs)
        THEN [fileOp |-> FileOpFailed(op, "source does not exist"), disk |-> files]
      ELSE IF /\ validatedSource.path \in DOMAIN files.files
              /\ \/ ~isFileExtensionAllowed(validatedSource.path)
                 \/ ~isFileExtensionAllowed(validatedDest.path)
        THEN [fileOp |-> FileOpFailed(op, "extension is not allowed"), disk |-> files]
      ELSE [fileOp |-> [op EXCEPT !.pc = "checkDest"],
            disk |-> [files EXCEPT !.dirs = @ \cup {destDir}]]

\* copyFile, up to the check of the destination
CopyFile(sourcePath, destinationPath, options) ==
  /\ fileOp.pc \in {"none", "done"}
  /\ fileOp.calls < MaxFileOps
  /\ LET started == startFileOp("copy", fileOp, disk, platform, sourcePath,
                                destinationPath, options)
     IN  fileOp' = started.fileOp /\ disk' = started.disk
  /\ UNCHANGED <<platform, config, req, fileHelpers, watch>>

\* moveFile, up to the check of the destination
MoveFile(sourcePath, destinationPath, options) ==
  /\ fileOp.pc \in {"none", "done"}
  /\ fileOp.calls < MaxFileOps
  /\ LET started == startFileOp("move", fileOp, disk, platform, sourcePath,
                                destinationPath, options)
     IN  fileOp' = started.fileOp /\ disk' = started.disk
  /\ UNCHANGED <<platform, config, req, fileHelpers, watch>>

\* options.overwrite !== false, options.createBackup !== false
OptionIsNotFalse(options, key) == ~(key \in DOMAIN options /\ options[key] = FALSE)

\* the check of the destination: fs.access, then the decision to make a
\* backup, to write, or to reject
FileOpCheckDest ==
  /\ fileOp.pc = "checkDest"
  /\ LET exists == fileOp.dest \in DOMAIN disk.files
     IN  fileOp' =
           IF OptionIsNotFalse(fileOp.options, "overwrite")
             THEN IF /\ exists
                     /\ OptionIsNotFalse(fileOp.options, "createBackup")
                     /\ config.enableBackups
                    THEN [fileOp EXCEPT !.pc = "backup"]
                    ELSE [fileOp EXCEPT !.pc = "write"]
           ELSE IF exists
             THEN FileOpFailed(fileOp, "destination exists and overwrite is forbidden")
             ELSE [fileOp EXCEPT !.pc = "write"]
  /\ UNCHANGED <<platform, config, req, fileHelpers, disk, watch>>

\* await utils.createBackup inside the try whose catch is empty: the backup
\* is made, or the rejection is swallowed and the operation goes on
FileOpBackup(succeeds) ==
  /\ fileOp.pc = "backup"
  /\ IF succeeds
       THEN LET made == createBackup(disk, fileOp.dest, fileOp.kind)
            IN  /\ disk' = made.disk
                /\ fileOp' = [fileOp EXCEPT !.pc = "write",
                                            !.backupPath = made.backupPath]
       ELSE /\ disk' = disk
            /\ fileOp' = [fileOp EXCEPT !.pc = "write"]
  /\ UNCHANGED <<platform, config, req, fileHelpers, watch>>

\* fs.copyFile, or fs.rename, and the result
FileOpWrite ==
  /\ fileOp.pc = "write"
  /\ LET moved == fileOp.kind = "move"
         written == WithFile(disk.files, fileOp.dest, disk.files[fileOp.source])
     IN  IF fileOp.source \in DOMAIN disk.files
           THEN /\ disk' = [disk EXCEPT !.files =
                              IF moved /\ fileOp.source # fileOp.dest
                                THEN WithoutFile(written, fileOp.source)
                                ELSE written]
                /\ fileOp' = [fileOp EXCEPT !.pc = "done", !.success = TRUE,
                                            !.wrote = TRUE]
           ELSE /\ disk' = disk
                /\ fileOp' = FileOpFailed(fileOp, "ENOENT: no such file or directory")
  /\ UNCHANGED <<platform, config, req, fileHelpers, watch>>

\* the files and the calls of specification SpecFileOps
FileA == Desktop \o <<"/", "a", ".", "t", "x", "t">>
FileB == Desktop \o <<"/", "b", ".", "t", "x", "t">>
FileNew == Desktop \o <<"/", "n", "e", "w", "/", "c", ".", "t", "x", "t">>
FileBat == Desktop \o <<"/", "r", "u", "n", ".", "b", "a", "t">>
FileOutside == <<"C", ":", "/", "W", "i", "n", "d", "o", "w", "s", "/", "x",
    ".", "t", "x", "t">>

FileOpDisk(host) ==
  [files |-> [k \in {pathNormalize(f, host) : f \in {FileA, FileB, FileBat}} |->
                IF k = pathNormalize(FileA, host) THEN File(<<1>>)
                ELSE IF k = pathNormalize(FileB, host) THEN File(<<2>>)
                ELSE File(<<3>>)],
   dirs |-> {pathNormalize(Desktop, host)},
   backups |-> {}]

FileOpSources == {FileA, FileBat, FileNew}

FileOpDestinations == {FileB, FileNew, FileOutside}

FileOpOptions ==
  {<<>>,
   [overwrite |-> FALSE],
   [createBackup |-> FALSE],
   [overwrite |-> TRUE, createBackup |-> TRUE]}

\* the server after initMCPFileOperations, with backups enabled or disabled
\* by the configuration
InitFileOps ==
  /\ platform \in Platforms
  /\ \E enableBackups \in BOOLEAN :
       config = Spread(DefaultConfig, [enableBackups |-> enableBackups])
  /\ req = [r \in Requests |-> IdleRequest]
  /\ fileHelpers = "isSubPath"
  /\ disk = FileOpDisk(platform)
  /\ fileOp = NoFileOp
  /\ watch = NoWatch

NextFileOps ==
  \/ \E s \in FileOpSources, d \in FileOpDestinations, o \in FileOpOptions :
       CopyFile(s, d, o)
  \/ \E s \in FileOpSources, d \in FileOpDestinations, o \in FileOpOptions :
       MoveFile(s, d, o)
  \/ FileOpCheckDest
  \/ \E succeeds \in BOOLEAN : FileOpBackup(succeeds)
  \/ FileOpWrite

SpecFileOps == InitFileOps /\ [][NextFileOps]_vars
-----------------------------------------------------------------------------
(* ConfigTransformer.applyPlatformSpecificConfig *)

\* psCommands and 'powershell'
psCommands ==
  {<<"G", "e", "t", "-", "C", "o", "n", "t", "e", "n", "t">>, <<"S", "e", "t", "-", "C", "o", "n", "t", "e", "n", "t">>, <<"G", "e", "t", "-", "C", "h", "i", "l", "d", "I", "t", "e", "m">>, <<"G", "e", "t", "-", "D", "a", "t", "e">>, <<"S", "e", "t", "-", "D", "a",
                                                "t", "e">>,
   <<"W", "r", "i", "t", "e", "-", "O", "u", "t", "p", "u", "t">>, <<"p", "o", "w", "e", "r", "s", "h", "e", "l", "l">>}

\* unixCommands, 'bash' and 'sh'
unixCommands ==
  {<<"c", "a", "t">>, <<"l", "s">>, <<"c", "p">>, <<"m", "v">>, <<"r", "m">>, <<"m", "k", "d", "i", "r">>, <<"d", "a", "t", "e">>, <<"e", "c", "h", "o">>, <<"b", "a", "s", "h">>, <<"s", "h">>}

\* the security section after applyPlatformSpecificConfig: without the
\* wildcard, the missing commands of the platform are pushed; added records
\* the names that were pushed
applyPlatformSpecificConfig(cfg, host) ==
  LET platformCommands == IF host = "win32" THEN psCommands ELSE unixCommands
      hasWildcard == Star \in cfg.allowedCommands
      missing == IF hasWildcard THEN {}
                 ELSE platformCommands \ cfg.allowedCommands
  IN  [cfg EXCEPT !.allowedCommands = @ \cup missing, !.added = missing]

\* transformConfig on the loaded configuration
ApplyPlatformSpecificConfig ==
  /\ config' = applyPlatformSpecificConfig(config, platform)
  /\ config' # config
  /\ UNCHANGED <<platform, req, fileVars>>

\* the commands of the requests of specification SpecConfig
ConfigCommands ==
  {<<"G", "e", "t", "-", "C", "o", "n", "t", "e", "n", "t", " ", "a", ".",
     "t", "x", "t">>, <<"g", "e", "t", "-", "d", "a", "t", "e">>, <<"p", "o", "w", "e", "r", "s", "h", "e", "l", "l">>, <<"c", "a", "t", " ", "a", ".", "t", "x", "t">>, <<"l", "s">>, <<"d", "i", "r">>}

\* a server that has loaded one of the configurations and has not yet
\* transformed it
InitConfig ==
  /\ platform \in Platforms
  /\ config \in {Spread(c, [added |-> {}]) : c \in Configs}
  /\ req = [r \in Requests |-> IdleRequest]
  /\ InitFiles

NextConfig ==
  \/ ApplyPlatformSpecificConfig
  \/ \E r \in Requests :
       \/ MayArrive(r) /\ \E c \in ConfigCommands : HttpExecute(r, c)
       \/ \E fate \in PlainFates : ExecCallback(r, fate)

SpecConfig == InitConfig /\ [][NextConfig]_vars
-----------------------------------------------------------------------------
(* The file watcher tools of setupMCPFileTools *)

\* the number of watcher ids and of listeners
MaxWatchers == 2
MaxListeners == 3

WatcherIds == 1..MaxWatchers

ListenerIds == 1..MaxListeners

\* fileWatcher.supportedEvents
supportedEvents == {"add", "change", "unlink"}

\* the events addWatchListener accepts
IsValidEvent(event) ==
  \/ event \in supportedEvents
  \/ event = "watcher-start"
  \/ event = "watcher-stop"

\* events.filter(...) of addWatchListener
RECURSIVE validEventsOf(_)
validEventsOf(events) ==
  IF events = <<>> THEN <<>>
  ELSE IF IsValidEvent(Head(events))
    THEN <<Head(events)>> \o validEventsOf(Tail(events))
    ELSE validEventsOf(Tail(events))

\* the elements of a list
Elements(list) == {list[i] : i \in 1..Len(list)}

\* the listeners the Map activeListeners holds
RecordedListeners(active) ==
  UNION {Elements(active[k]) : k \in DOMAIN active}

\* the listener functions that exist: attached or recorded
LiveListeners(w) ==
  {l.listener : l \in w.attached \cup RecordedListeners(w.active)}

\* activeListeners.set(watcherId, listeners)
MapSet(active, watcherId, listeners) ==
  [k \in (DOMAIN active) \cup {watcherId} |->
     IF k = watcherId THEN listeners ELSE active[k]]

\* activeListeners.delete(watcherId)
MapDelete(active, watcherId) ==
  [k \in (DOMAIN active) \ {watcherId} |-> active[k]]

\* the answer of a tool
Answered(tool, watcherId, isError) ==
  [tool |-> tool, watcherId |-> watcherId, isError |-> isError]

\* fileWatcher.watchPath: a watcher with an id no watcher has, or a rejection
fileWatcherWatchPath(w, watcherId) == [w EXCEPT !.watchers = @ \cup {watcherId}]

\* fileWatcher.unwatchPath: the watcher is stopped when it exists
fileWatcherUnwatchPath(w, watcherId) == [w EXCEPT !.watchers = @ \ {watcherId}]

\* fileWatcher.unwatchAll
fileWatcherUnwatchAll(w) == [w EXCEPT !.watchers = {}]

\* fileWatcher.off for each listener of a list
OffAll(attached, listeners) == attached \ Elements(listeners)

\* tool watchPath
WatchPath(succeeds) ==
  /\ IF succeeds
       THEN \E watcherId \in WatcherIds \ watch.watchers :
              watch' = [fileWatcherWatchPath(watch, watcherId) EXCEPT
                          !.last = Answered("watchPath", watcherId, FALSE)]
       ELSE watch' = [watch EXCEPT !.last = Answered("watchPath", 0, TRUE)]
  /\ UNCHANGED <<platform, config, req, fileHelpers, disk, fileOp>>

\* tool unwatchPath that leaves the entry of the watcher in activeListeners
UnwatchPathKeepsEntry(watcherId) ==
  /\ watch' =
       IF watcherId \in watch.watchers
         THEN [fileWatcherUnwatchPath(watch, watcherId) EXCEPT
                 !.attached = IF watcherId \in DOMAIN watch.active
                                THEN OffAll(@, watch.active[watcherId])
                                ELSE @,
                 !.last = Answered("unwatchPath", watcherId, FALSE)]
         ELSE [watch EXCEPT !.last = Answered("unwatchPath", watcherId, TRUE)]
  /\ UNCHANGED <<platform, config, req, fileHelpers, disk, fileOp>>

\* tool unwatchPath
UnwatchPath(watcherId) ==
  /\ watch' =
       IF watcherId \in watch.watchers
         THEN [fileWatcherUnwatchPath(watch, watcherId) EXCEPT
                 !.attached = IF watcherId \in DOMAIN watch.active
                                THEN OffAll(@, watch.active[watcherId])
                                ELSE @,
                 !.active = MapDelete(@, watcherId),
                 !.last = Answered("unwatchPath", watcherId, FALSE)]
         ELSE [watch EXCEPT !.last = Answered("unwatchPath", watcherId, TRUE)]
  /\ UNCHANGED <<platform, config, req, fileHelpers, disk, fileOp>>

\* tool unwatchAll
UnwatchAll ==
  /\ watch' = [fileWatcherUnwatchAll(watch) EXCEPT
                 !.attached = @ \ RecordedListeners(watch.active),
                 !.active = <<>>,
                 !.last = Answered("unwatchAll", 0, FALSE)]
  /\ UNCHANGED <<platform, config, req, fileHelpers, disk, fileOp>>

\* the listeners addWatchListener makes for the valid events: one new
\* function for each, numbered from the functions that exist
NewListeners(w, watcherId, validEvents) ==
  LET free == ListenerIds \ LiveListeners(w)
      nth(i) == CHOOSE n \in free : Cardinality({m \in free : m < n}) = i - 1
  IN  [i \in 1..Len(validEvents) |->
         [event |-> validEvents[i], listener |-> nth(i),
          watcherId |-> watcherId]]

\* tool addWatchListener
AddWatchListener(watcherId, events) ==
  /\ Cardinality(LiveListeners(watch)) + Len(validEventsOf(events))
       <= MaxListeners
  /\ LET validEvents == validEventsOf(events)
         listeners == NewListeners(watch, watcherId, validEvents)
     IN  watch' =
           IF watcherId \notin watch.watchers \/ validEvents = <<>>
             THEN [watch EXCEPT
                     !.last = Answered("addWatchListener", watcherId, TRUE)]
             ELSE [watch EXCEPT
                     !.attached = @ \cup Elements(listeners),
                     !.active =
                       IF watcherId \in DOMAIN @
                         THEN MapSet(@, watcherId, @[watcherId] \o listeners)
                         ELSE MapSet(@, watcherId, listeners),
                     !.last = Answered("addWatchListener", watcherId, FALSE)]
  /\ UNCHANGED <<platform, config, req, fileHelpers, disk, fileOp>>

\* the listeners of a list whose event is not among the events
RECURSIVE remainingListenersOf(_, _)
remainingListenersOf(listeners, events) ==
  IF listeners = <<>> THEN <<>>
  ELSE IF Head(listeners).event \in Elements(events)
    THEN remainingListenersOf(Tail(listeners), events)
    ELSE <<Head(listeners)>> \o remainingListenersOf(Tail(listeners), events)

\* tool removeWatchListener
RemoveWatchListener(watcherId, events) ==
  /\ watch' =
       IF watcherId \notin DOMAIN watch.active
         THEN [watch EXCEPT
                 !.last = Answered("removeWatchListener", watcherId, TRUE)]
       ELSE
         LET listeners == watch.active[watcherId]
             remainingListeners ==
               IF Len(events) > 0 THEN remainingListenersOf(listeners, events)
               ELSE <<>>
             removed == Elements(listeners) \ Elements(remainingListeners)
         IN  [watch EXCEPT
                !.attached = @ \ removed,
                !.active = IF Len(remainingListeners) > 0
                             THEN MapSet(@, watcherId, remainingListeners)
                             ELSE MapDelete(@, watcherId),
                !.last = Answered("removeWatchListener", watcherId, FALSE)]
  /\ UNCHANGED <<platform, config, req, fileHelpers, disk, fileOp>>

\* the ids and the event lists the callers pass
CallerWatcherIds == 1..(MaxWatchers + 1)

AddedEvents ==
  {<<>>, <<"change">>, <<"bogus">>, <<"unlink", "watcher-stop">>,
   <<"change", "bogus", "change">>}

RemovedEvents == {<<>>, <<"change">>, <<"bogus">>}

NextWatch ==
  \/ \E succeeds \in BOOLEAN : WatchPath(succeeds)
  \/ \E watcherId \in CallerWatcherIds : UnwatchPath(watcherId)
  \/ UnwatchAll
  \/ \E watcherId \in CallerWatcherIds, events \in AddedEvents :
       AddWatchListener(watcherId, events)
  \/ \E watcherId \in CallerWatcherIds, events \in RemovedEvents :
       RemoveWatchListener(watcherId, events)

SpecWatch == Init /\ [][NextWatch]_vars
-----------------------------------------------------------------------------
(* Properties *)

\* the requests whose handler has run
HasRun(r) == req[r].pc # "idle"

\* the leading blank-separated token of a command, lower-cased, stated
\* without the operators of the code
LeadingToken(command) ==
  LET t == TrimStart(command)
      n == CHOOSE k \in 0..Len(t) :
             /\ \A i \in 1..k : ~IsWhitespace(t[i])
             /\ k = Len(t) \/ IsWhitespace(t[k + 1])
  IN  ToLowerCase(SubSeq(t, 1, n))

\* the first position at which p occurs in s, 0 when it does not occur
IndexOf(s, p) ==
  LET hits == {i \in 1..(Len(s) - Len(p) + 1) : SubSeq(s, i, i + Len(p) - 1) = p}
  IN  IF hits = {} THEN 0 ELSE CHOOSE i \in hits : \A j \in hits : i <= j

Contains(s, p) == IndexOf(s, p) # 0

\* the part of s that follows the first occurrence of p
After(s, p) == SubSeq(s, IndexOf(s, p) + Len(p), Len(s))

\* C1: a request to commandHelpers.executeCommand whose leading token,
\* lower-cased, is in blockedCommands is rejected as not allowed and starts no
\* child process, whatever the other requests are doing.
C1_BlockedCommandNeverSpawns ==
  \A r \in Requests :
    (req[r].api = "http" /\ req[r].command # <<>>
       /\ LeadingToken(req[r].command) \in config.blockedCommands)
    => /\ req[r].spawns = 0
       /\ req[r].inv = NoInvocation
       /\ req[r].pc = "done"
       /\ req[r].outcome = "rejected"
       /\ req[r].error = "Command not allowed"

\* C1 witness: a blocked command was rejected while the child process of
\* another request is running.
C1_Witness ==
  \E r, q \in Requests :
    /\ r # q
    /\ req[r].api = "http"
    /\ LeadingToken(req[r].command) \in config.blockedCommands
    /\ req[r].outcome = "rejected"
    /\ req[q].pc = "waiting" /\ req[q].spawns = 1

\* C2: a command longer than security.maxCommandLength given to
\* commandHelpers.executeCommand ends rejected, without the classification
\* step and without a child process.
C2_TooLongRejectedBeforeClassification ==
  \A r \in Requests :
    (req[r].api = "http" /\ Len(req[r].command) > config.maxCommandLength)
    => /\ req[r].pc = "done"
       /\ req[r].outcome = "rejected"
       /\ \A i \in 1..Len(req[r].steps) : req[r].steps[i] \notin {"classify", "exec"}
       /\ req[r].route = "none"
       /\ req[r].spawns = 0

\* C2 witness: an allowed command that is too long was rejected by the length
\* check.
C2_Witness ==
  \E r \in Requests :
    /\ req[r].api = "http"
    /\ Len(req[r].command) > config.maxCommandLength
    /\ req[r].steps = <<"isCommandAllowed", "sanitizeCommand">>
    /\ req[r].error = "Command exceeds maximum allowed length"

ExecutedWith(r) ==
  CASE req[r].api = "enhanced" /\ req[r].route \in {"powershell", "pwsh"} ->
         "powershell"
    [] req[r].api = "enhanced" /\ req[r].route = "bash" -> "gitbash"
    [] req[r].api = "enhanced" /\ req[r].route = "default" ->
         IF platform = "win32" THEN "cmd" ELSE "sh"
    [] OTHER -> req[r].route

\* the shell a concrete shell name stands for, "none" for any other name
NamedShell(shell) ==
  CASE ToLowerCase(shell) = <<"p", "o", "w", "e", "r", "s", "h", "e", "l",
                              "l">> -> "powershell"
    [] ToLowerCase(shell) = <<"c", "m", "d">> -> "cmd"
    [] ToLowerCase(shell) = <<"g", "i", "t", "b", "a", "s", "h">> -> "gitbash"
    [] OTHER -> "none"

\* C4 (as claimed): with a concrete shell name (powershell, cmd, gitbash) the
\* command is executed with exactly that shell, whatever its text, on both
\* entry points that take a shell name.
C4_Original ==
  \A r \in Requests :
    (HasRun(r) /\ req[r].api \in {"global", "enhanced"}
       /\ req[r].command # <<>> /\ NamedShell(req[r].shell) # "none")
    => (req[r].spawns = 1 /\ ExecutedWith(r) = NamedShell(req[r].shell))

\* C4 (amended): global.executeCommand executes the command with the shell
\* named powershell, cmd or gitbash, whatever the command text; safeExecuteCommand
\* of enhanced-mcp.js executes it with PowerShell for 'powershell', with bash
\* for 'bash', and with the default of the platform (cmd.exe on Windows, the
\* system shell elsewhere) for every other name, cmd and gitbash included.
C4_ExplicitShellDecides ==
  \A r \in Requests :
    (HasRun(r) /\ req[r].command # <<>>)
    => /\ (req[r].api = "global" /\ NamedShell(req[r].shell) # "none")
          => /\ req[r].spawns = 1
             /\ ExecutedWith(r) = NamedShell(req[r].shell)
             /\ req[r].inv.file =
                  (CASE NamedShell(req[r].shell) = "powershell" -> "powershell.exe"
                     [] NamedShell(req[r].shell) = "cmd" -> "cmd.exe"
                     [] OTHER -> "C:\\Program Files\\Git\\bin\\bash.exe")
       /\ req[r].api = "enhanced"
          => /\ req[r].spawns = 1
             /\ ExecutedWith(r) =
                  (CASE ToLowerCase(req[r].shell) = <<"p", "o", "w", "e", "r", "s", "h", "e",
                                                      "l", "l">> -> "powershell"
                     [] ToLowerCase(req[r].shell) = <<"b", "a", "s", "h">> -> "gitbash"
                     [] OTHER -> IF platform = "win32" THEN "cmd" ELSE "sh")

\* C4 witness: a command that looks like PowerShell was executed with cmd
\* because the caller named cmd, in mixed case or not.
C4_Witness ==
  \E r \in Requests :
    /\ req[r].api = "global"
    /\ NamedShell(req[r].shell) = "cmd"
    /\ StartsWith(req[r].command, <<"G", "e", "t", "-", "D", "a", "t", "e">>)
    /\ req[r].inv.file = "cmd.exe"
    /\ req[r].spawns = 1

\* C5 (as claimed): a request to global.executeCommand whose shell is 'auto'
\* or absent is classified and executed, not refused for its shell name.
C5_AutoIsClassified ==
  \A r \in Requests :
    (HasRun(r) /\ req[r].api = "global" /\ req[r].command # <<>>
       /\ ToLowerCase(req[r].shell) \in {<<"a", "u", "t", "o">>, <<>>})
    => /\ req[r].spawns = 1
       /\ req[r].route # "none"
       /\ req[r].error = ""

\* the PowerShell prefixes the specification names
NamedPowerShellPrefixes ==
  {<<"g", "e", "t", "-">>,
   <<"s", "e", "t", "-">>,
   <<"w", "r", "i", "t", "e", "-">>,
   <<"i", "n", "v", "o", "k", "e", "-">>,
   <<"p", "o", "w", "e", "r", "s", "h", "e", "l", "l">>,
   <<"p", "w", "s", "h">>}

BeginsWithPowerShellPrefix(command) ==
  \E p \in NamedPowerShellPrefixes : StartsWith(ToLowerCase(command), p)

\* the request reached the classification of commandHelpers.executeCommand
Classified(r) ==
  req[r].api = "http" /\ \E i \in 1..Len(req[r].steps) : req[r].steps[i] = "classify"

\* C6: under automatic classification a command that begins, in any case, with
\* Get-, Set-, Write-, Invoke-, powershell or pwsh takes the PowerShell path:
\* never the Git Bash path, never the CMD path.
C6_PowerShellPrefixRoutesToPowerShell ==
  \A r \in Requests :
    (Classified(r) /\ BeginsWithPowerShellPrefix(req[r].command))
    => /\ req[r].route = "powershell"
       /\ req[r].inv.script # <<>>
       /\ Contains(req[r].inv.text, <<" ", "p", "o", "w", "e", "r", "s", "h",
                                      "e", "l", "l", ".", "e", "x", "e", " ">>)

\* C6 witness: a command written with capitals, Get-Date..., took the PowerShell
\* path.
C6_Witness ==
  \E r \in Requests :
    /\ Classified(r)
    /\ StartsWith(req[r].command, <<"G", "e", "t", "-", "D", "a", "t", "e">>)
    /\ req[r].route = "powershell"
    /\ req[r].spawns = 1

\* s ends with p
EndsWith(s, p) ==
  Len(p) <= Len(s) /\ SubSeq(s, Len(s) - Len(p) + 1, Len(s)) = p

\* C7 (as claimed): under automatic classification a command without a
\* PowerShell prefix that starts with bash, sh, ./ or 'source ', or that ends
\* with '.sh', takes the POSIX (Git Bash) path.
C7_PosixPrefixOrShSuffixRoutesToPosix ==
  \A r \in Requests :
    (/\ Classified(r)
     /\ ~isPowerShell(req[r].command)
     /\ \/ StartsWith(ToLowerCase(req[r].command), <<"b", "a", "s", "h">>)
        \/ StartsWith(ToLowerCase(req[r].command), <<"s", "h">>)
        \/ StartsWith(ToLowerCase(req[r].command), <<".", "/">>)
        \/ StartsWith(ToLowerCase(req[r].command), <<"s", "o", "u", "r", "c", "e", " ">>)
        \/ EndsWith(ToLowerCase(req[r].command), <<".", "s", "h">>))
    => req[r].route = "gitbash"

\* C8 (as claimed): a command that matches neither the PowerShell nor the
\* POSIX prefixes is executed by cmd.exe on a Windows host and by the POSIX
\* shell, not cmd.exe, on any other host.
C8_DefaultShellFollowsPlatform ==
  \A r \in Requests :
    (Classified(r) /\ req[r].route = "cmd")
    => (req[r].inv.shell = "cmd.exe" <=> platform = "win32")

\* the command contains one of the operators that call for the wrapper
HasPipeOrSemicolon(command) == Includes(command, "|") \/ Includes(command, ";")

\* the command line goes through a PowerShell -Command wrapper
ThroughPowerShellWrapper(text) ==
  Contains(text, <<" ", "p", "o", "w", "e", "r", "s", "h", "e", "l", "l",
                   ".", "e", "x", "e", " ">>) /\ Contains(text, <<" ", "-", "C", "o", "m", "m", "a", "n", "d", " ", "\"">>)

\* a request routed to the Windows CMD path, automatically or by name
RoutedToCmd(r) ==
  /\ HasRun(r)
  /\ req[r].api \in {"http", "global"}
  /\ req[r].route = "cmd"

\* C9 (as claimed): for a command routed to the Windows CMD path the command
\* line goes through a PowerShell -Command wrapper exactly when the command
\* contains '|' or ';', and it always begins with chcp 65001.
C9_Original ==
  \A r \in Requests :
    RoutedToCmd(r)
    => /\ ThroughPowerShellWrapper(req[r].inv.text)
            <=> HasPipeOrSemicolon(req[r].command)
       /\ StartsWith(req[r].inv.text, <<"c", "h", "c", "p", " ", "6", "5",
                                        "0", "0", "1">>)

\* C9 (amended): in the CMD branch of commandHelpers.executeCommand the command
\* line is 'chcp 65001 >nul && powershell.exe ... -Command "<command>"' exactly
\* when the command contains '|' or ';' and 'chcp 65001 >nul && <command>'
\* otherwise, the command being the sanitized one; startCmdProcess never uses
\* the wrapper: its command line is 'chcp 65001 > nul && <command>' whatever the
\* command contains. Every one of them begins with chcp 65001.
C9_WrapperOnlyInAutomaticCmdBranch ==
  \A r \in Requests :
    RoutedToCmd(r)
    => /\ StartsWith(req[r].inv.text, <<"c", "h", "c", "p", " ", "6", "5",
                                        "0", "0", "1">>)
       /\ req[r].api = "http"
          => /\ ThroughPowerShellWrapper(req[r].inv.text)
                  <=> HasPipeOrSemicolon(req[r].command)
             /\ HasPipeOrSemicolon(req[r].command)
                  => req[r].inv.text =
                       <<"c", "h", "c", "p", " ", "6", "5", "0", "0", "1",
                         " ", ">", "n", "u", "l", " ", "&", "&", " ", "p",
                         "o", "w", "e", "r", "s", "h", "e", "l", "l", ".",
                         "e", "x", "e", " ", "-", "N", "o", "P", "r", "o",
                         "f", "i", "l", "e", " ", "-", "N", "o", "n", "I",
                         "n", "t", "e", "r", "a", "c", "t", "i", "v", "e",
                         " ", "-", "E", "x", "e", "c", "u", "t", "i", "o",
                         "n", "P", "o", "l", "i", "c", "y", " ", "B", "y",
                         "p", "a", "s", "s", " ", "-", "C", "o", "m", "m",
                         "a", "n", "d", " ", "\"">>
                         \o EscapeQuotes(RemoveBacktickDollar(req[r].command)) \o <<"\"">>
             /\ ~HasPipeOrSemicolon(req[r].command)
                  => req[r].inv.text =
                       <<"c", "h", "c", "p", " ", "6", "5", "0", "0", "1",
                         " ", ">", "n", "u", "l", " ", "&", "&", " ">> \o RemoveBacktickDollar(req[r].command)
       /\ req[r].api = "global"
          => /\ ~ThroughPowerShellWrapper(req[r].inv.text)
             /\ req[r].inv.file = "cmd.exe"
             /\ req[r].inv.text = <<"c", "h", "c", "p", " ", "6", "5", "0",
                                    "0", "1", " ", ">", " ", "n", "u", "l",
                                    " ", "&", "&", " ">> \o req[r].command

\* C9 witness: a command with a pipe took the automatic CMD branch and was
\* wrapped.
C9_Witness ==
  \E r \in Requests :
    /\ RoutedToCmd(r)
    /\ req[r].api = "http"
    /\ Includes(req[r].command, "|")
    /\ StartsWith(req[r].command, <<"e", "c", "h", "o">>)
    /\ ThroughPowerShellWrapper(req[r].inv.text)

\* a request whose command is handed to PowerShell as the target shell
PowerShellTarget(r) ==
  HasRun(r) /\ req[r].route \in {"powershell", "pwsh"}

\* the invocation passes an encoded command whose payload is the base64 text
\* of the UTF-16LE bytes of the script
PassesEncodedScript(inv) ==
  /\ inv.call = "exec"
  /\ Contains(inv.text, <<" ", "-", "E", "n", "c", "o", "d", "e", "d", "C",
                          "o", "m", "m", "a", "n", "d", " ">>)
  /\ ~Contains(inv.text, <<" ", "-", "C", "o", "m", "m", "a", "n", "d", " ">>)
  /\ inv.script # <<>>
  /\ Utf16leDecode(Base64Decode(After(inv.text, <<" ", "-", "E", "n", "c", "o", "d", "e",
                                                  "d", "C", "o", "m", "m", "a", "n", "d",
                                                  " ">>))) = inv.script

-----------------------------------------------------------------------------
(* Claims about the PowerShell script *)

\* the first index from which p occurs in s at or after position from, 0 when
\* there is none
IndexFrom(s, p, from) ==
  LET hits == {i \in from..(Len(s) - Len(p) + 1) : SubSeq(s, i, i + Len(p) - 1) = p}
  IN  IF hits = {} THEN 0 ELSE CHOOSE i \in hits : \A j \in hits : i <= j

\* the script a PowerShell target is given: the encoded script when there is
\* one, the text that follows -Command otherwise
BuiltScript(r) ==
  IF req[r].inv.script # <<>> THEN req[r].inv.script
  ELSE IF req[r].api = "global" THEN req[r].inv.text
  ELSE req[r].command

\* the texts that count as the encoding directive, as the culture directive
\* and as the exit-code check, a backtick before '$' or not
EncodingDirectives ==
  {EncodingDirective, BacktickDollars(EncodingDirective), encodingPrefix}

CultureDirectives == {CultureDirective, CultureDirectiveTry}

ExitCodeChecks == {ExitCodeCheck, BacktickDollars(ExitCodeCheck)}

\* the forms under which the command of a request may stand in the script
CommandForms(command) ==
  {command, BacktickDollars(command), RemoveBacktickDollar(command),
   TrimEnd(RemoveBacktickDollar(command))}

\* s holds an encoding directive, then a culture directive, then the command,
\* then the exit-code check, and ends with the check
InScriptOrder(s, command) ==
  \E e \in EncodingDirectives, c \in CultureDirectives,
     u \in CommandForms(command), x \in ExitCodeChecks :
    LET i == IndexFrom(s, e, 1)
        j == IF i = 0 THEN 0 ELSE IndexFrom(s, c, i + Len(e))
        k == IF j = 0 THEN 0 ELSE IndexFrom(s, u, j + Len(c))
        l == IF k = 0 THEN 0 ELSE IndexFrom(s, x, k + Len(u))
    IN  l # 0 /\ l + Len(x) - 1 = Len(s)

\* C11 (as claimed): the script built for a PowerShell target holds, in this
\* order, the UTF-8 encoding directive, the culture directive, the command and
\* the trailing check of $LASTEXITCODE; no script is built without the check.
C11_ScriptEndsWithExitCodeCheck ==
  \A r \in Requests :
    (PowerShellTarget(r) /\ req[r].spawns = 1)
    => InScriptOrder(BuiltScript(r), req[r].command)

\* C12 (as claimed): the script that gets encoded for a PowerShell target holds
\* the command of the request character for character, '$' and backtick
\* included.
C12_RawCommandInScript ==
  \A r \in Requests :
    (PowerShellTarget(r) /\ req[r].inv.script # <<>>)
    => Contains(req[r].inv.script, req[r].command)

\* the text that follows -EncodedCommand in a command line
EncodedPayload(text) == After(text, <<" ", "-", "E", "n", "c", "o", "d", "e",
                                      "d", "C", "o", "m", "m", "a", "n", "d",
                                      " ">>)

\* encoding s as the code does and decoding the result gives s back
RoundTrips(s) == Utf16leDecode(Base64Decode(EncodeCommand(s))) = s

\* C13: decoding the base64 payload of a PowerShell invocation as UTF-16LE
\* gives exactly the script that was encoded; the same holds of the command of
\* every request, whatever its length and its characters.
C13_PayloadDecodesToScript ==
  \A r \in Requests :
    HasRun(r)
    => /\ RoundTrips(req[r].command)
       /\ req[r].inv.script # <<>>
          => Utf16leDecode(Base64Decode(EncodedPayload(req[r].inv.text)))
               = req[r].inv.script

\* C13 witness: a script with a non-ASCII character and a '$' was encoded into
\* a padded payload, and the payload decodes to the script.
C13_Witness ==
  \E r \in Requests :
    /\ req[r].inv.script # <<>>
    /\ Includes(req[r].inv.script, "U3053")
    /\ Includes(req[r].inv.script, "$")
    /\ EndsWith(req[r].inv.text, <<"=">>)
    /\ Utf16leDecode(Base64Decode(EncodedPayload(req[r].inv.text)))
         = req[r].inv.script

-----------------------------------------------------------------------------
(* Claims about the options of the child and about its result *)

\* the request started a child process
Spawned(r) == HasRun(r) /\ req[r].spawns = 1

\* C14 (as claimed): every child process is started with a maxBuffer option of
\* exactly 20 MiB, whatever options the caller passes.
C14_MaxBufferIsTwentyMiB ==
  \A r \in Requests :
    Spawned(r)
    => /\ "maxBuffer" \in DOMAIN req[r].inv.options
       /\ req[r].inv.options.maxBuffer = 20 * 1024 * 1024

\* the environment holds the variable with one of the values
EnvHas(env, name, values) == name \in DOMAIN env /\ env[name] \in values

Utf8Locales == {"ja_JP.UTF-8", "en_US.UTF-8", "C.UTF-8"}

\* C15 (as claimed): every child receives an environment in which LANG and
\* LC_ALL name a UTF-8 locale and PYTHONIOENCODING is set to utf-8, whatever
\* options, options.env included, the caller passes.
C15_ChildEnvironmentIsUtf8 ==
  \A r \in Requests :
    Spawned(r)
    => /\ "env" \in DOMAIN req[r].inv.options
       /\ EnvHas(req[r].inv.options.env, "LANG", Utf8Locales)
       /\ EnvHas(req[r].inv.options.env, "LC_ALL", Utf8Locales)
       /\ EnvHas(req[r].inv.options.env, "PYTHONIOENCODING", {"utf-8"})

\* the child wrote more than the call lets it write: exec ends such a child
Overflowed(r) ==
  /\ req[r].inv.call = "exec"
  /\ req[r].child.kind = "exit"
  /\ req[r].child.size > ExecBufferCap(req[r].inv.options)

\* the child of the request ran to its end and exited with the code
RanAndExited(r, code) ==
  /\ req[r].pc = "done"
  /\ req[r].child.kind = "exit"
  /\ req[r].child.code = code
  /\ ~Overflowed(r)

\* C16 (as claimed): a child that runs and exits with a code other than 0
\* gives a normal result that carries the code, with a success that is not
\* true: no rejected promise, no HTTP status of the error classes.
C16_NonZeroExitIsAResult ==
  \A r \in Requests :
    RanAndExited(r, 1)
    => /\ req[r].outcome = "resolved"
       /\ req[r].status < 400
       /\ req[r].exitCode = 1
       /\ req[r].success # "true"

\* testExecuteCommand: success of the result of global.executeCommand
testExecuteCommandSuccess(r) ==
  req[r].outcome = "resolved" /\ req[r].exitCode = 0

\* C17: a result says success exactly when the child ran to its end with exit
\* code 0 and could be started: in the response of POST /command/execute, in
\* the result of runPowerShellCommand and in that of testExecuteCommand. A
\* request whose process ended on an uncaught error has no result.
C17_SuccessIffExitCodeZero ==
  \A r \in Requests :
    (req[r].pc = "done" /\ req[r].outcome # "crashed")
    => /\ req[r].api \in {"http", "run"}
          => /\ req[r].success = "true" <=> RanAndExited(r, 0)
             /\ req[r].success = "true" => req[r].outcome = "resolved"
       /\ req[r].api = "run" => req[r].success \in {"true", "false"}
       /\ req[r].api = "global"
          => (testExecuteCommandSuccess(r) <=> RanAndExited(r, 0))
       /\ req[r].api \in {"enhanced", "safe"} => req[r].success = "none"

\* C17 witness: runPowerShellCommand and the command endpoint report a child
\* that exited with code 1 without success, after reporting nothing before.
C17_Witness ==
  \E r \in Requests :
    /\ req[r].api \in {"run", "http"}
    /\ RanAndExited(r, 1)
    /\ req[r].success # "true"
    /\ req[r].spawns = 1

\* C18 (as claimed): POST /command/execute answers a command that is not
\* allowed with a status of the 403 class and a child that could not be
\* started or that exceeded the buffer with a status of the 500 class.
C18_StatusTellsAuthorizationFromInternal ==
  \A r \in Requests :
    (req[r].api = "http" /\ req[r].pc = "done")
    => /\ req[r].error = "Command not allowed" => req[r].status = 403
       /\ (req[r].child.kind = "spawnError" \/ Overflowed(r))
          => req[r].status \in 500..599

\* C19 (as claimed): when the output of a child exceeds the cap of 20 MiB the
\* request ends with an outcome that is neither that of a child that could not
\* be started nor that of a normal completion, and reports no more output
\* than the cap.
C19_BufferExceededIsTold ==
  \A r \in Requests :
    (req[r].pc = "done" /\ req[r].child.kind = "exit"
       /\ req[r].child.size > 20 * 1024 * 1024)
    => /\ req[r].outcome = "rejected"
       /\ req[r].error = "stdout maxBuffer length exceeded"
       /\ req[r].stdoutLen <= 20 * 1024 * 1024

\* the command passes the authorization and length checks
PassesChecks(cfg, command) ==
  /\ command # <<>>
  /\ ~ LeadingToken(command) \in cfg.blockedCommands
  /\ (LeadingToken(command) \in cfg.allowedCommands \/ Star \in cfg.allowedCommands)
  /\ Len(command) <= cfg.maxCommandLength

\* C20: a request to POST /command/execute whose command passes the
\* authorization and length checks has exactly one child process, before and
\* after the callback of exec, whatever became of the child; its promise is
\* not settled while the child runs and is settled once when the callback ran.
C20_ExactlyOneSpawnOneSettlement ==
  \A r \in Requests :
    (req[r].api = "http" /\ PassesChecks(config, req[r].command))
    => /\ req[r].spawns = 1
       /\ req[r].pc = "waiting" => req[r].settled = 0
       /\ req[r].pc = "done" => req[r].settled = 1
       /\ req[r].pc \in {"waiting", "done"}

\* C20 witness: the child of an allowed command could not be started; the
\* request was rejected once and no second child was started.
C20_Witness ==
  \E r \in Requests :
    /\ req[r].api = "http"
    /\ PassesChecks(config, req[r].command)
    /\ req[r].child.kind = "spawnError"
    /\ req[r].outcome = "rejected"
    /\ req[r].spawns = 1
    /\ req[r].settled = 1
-----------------------------------------------------------------------------
(* Claims about the text of the result *)

\* the functions that strip a byte-order mark or diagnostic noise
Normalizations == {"processOutput", "formatErrorMessage"}

\* the request ended with a child that could not be started or that exec
\* ended for its output
EndedInSpawnFailedOrBufferExceeded(r) ==
  /\ req[r].pc = "done"
  /\ (req[r].child.kind = "spawnError" \/ Overflowed(r))

\* C21 (as claimed): a request that ends with a child that could not be
\* started, or with a child that exceeded the buffer, passes through none of
\* the normalizing functions and still delivers an error to its caller: a
\* rejected promise or an error response, without text of the child and with
\* a success that is not true.
C21_FailedChildSkipsNormalization ==
  \A r \in Requests :
    EndedInSpawnFailedOrBufferExceeded(r)
    => /\ req[r].normalized \cap Normalizations = {}
       /\ req[r].outcome = "rejected" \/ req[r].success = "false"
       /\ req[r].success # "true"

\* the text starts with a byte-order mark: U+FEFF, or the code units of the
\* bytes FF FE, FE FF or EF BB BF
StartsWithBom(text) ==
  \/ StartsWith(text, <<"UFEFF">>)
  \/ StartsWith(text, <<"U00FF", "U00FE">>)
  \/ StartsWith(text, <<"U00FE", "U00FF">>)
  \/ StartsWith(text, <<"U00EF", "U00BB", "U00BF">>)

\* the request was answered with texts that went through processOutput of
\* executePowerShellCommand
PowerShellOutputProcessed(r) ==
  /\ req[r].pc = "done"
  /\ req[r].api = "http"
  /\ req[r].route = "powershell"
  /\ "processOutput" \in req[r].normalized

\* C23 (as claimed): processOutput is idempotent: applied to a text it has
\* processed it returns that text unchanged, and a processed text never
\* starts with a byte-order mark.
C23_ProcessOutputIsIdempotent ==
  \A r \in Requests :
    PowerShellOutputProcessed(r)
    => /\ processOutput(req[r].stdout) = req[r].stdout
       /\ processOutput(req[r].stderr) = req[r].stderr
       /\ ~StartsWithBom(req[r].stdout)
       /\ ~StartsWithBom(req[r].stderr)

\* a diagnostic block of PowerShell starts at index i of the text
DiagnosticAt(text, i) ==
  \/ AtLineMatch(text, i) # 0
  \/ LabelMatch(text, i, <<"+", " ", "C", "a", "t", "e", "g", "o", "r", "y",
                           "I", "n", "f", "o">>)
  \/ LabelMatch(text, i, <<"+", " ", "F", "u", "l", "l", "y", "Q", "u", "a",
                           "l", "i", "f", "i", "e", "d", "E", "r", "r", "o",
                           "r", "I", "d">>)

HasDiagnostic(text) == \E i \in 1..Len(text) : DiagnosticAt(text, i)

\* the text before the first diagnostic block, all of it when there is none
BeforeDiagnostics(text) ==
  IF ~HasDiagnostic(text) THEN text
  ELSE SubSeq(text, 1,
              (CHOOSE i \in 1..Len(text) :
                 /\ DiagnosticAt(text, i)
                 /\ \A j \in 1..(i - 1) : ~DiagnosticAt(text, j)) - 1)

\* global.executeCommand returned the result of a child it collected
GlobalResult(r) ==
  /\ req[r].pc = "done"
  /\ req[r].api = "global"
  /\ req[r].child.kind = "exit"

\* C24: the stderr text global.executeCommand returns is the text of the
\* child without the 'At line:N char:M', '+ CategoryInfo :' and
\* '+ FullyQualifiedErrorId :' blocks when the shell type is powershell; for
\* cmd and gitbash it is the text of the child, trimmed; and the text before
\* the first diagnostic block is kept, trimmed, for every shell type.
C24_NoiseStrippedForPowerShellOnly ==
  \A r \in Requests :
    GlobalResult(r)
    => LET raw == Utf8Decode(req[r].child.stderr)
       IN  /\ ToLowerCase(req[r].shell) = <<"p", "o", "w", "e", "r", "s",
                                            "h", "e", "l", "l">>
                => ~HasDiagnostic(req[r].stderr)
           /\ ToLowerCase(req[r].shell) \in {<<"c", "m", "d">>, <<"g", "i", "t", "b", "a", "s", "h">>}
                => req[r].stderr = Trim(raw)
           /\ StartsWith(req[r].stderr, Trim(BeforeDiagnostics(raw)))

\* a PowerShell result whose stderr lost a diagnostic block and kept the text
\* before it
C24_Witness ==
  \E r \in Requests :
    /\ GlobalResult(r)
    /\ ToLowerCase(req[r].shell) = <<"p", "o", "w", "e", "r", "s", "h", "e",
                                     "l", "l">>
    /\ HasDiagnostic(Utf8Decode(req[r].child.stderr))
    /\ BeforeDiagnostics(Utf8Decode(req[r].child.stderr)) # <<>>
    /\ req[r].stderr = <<"G", "e", "t", "-", "F", "o", "o", " ", ":", " ",
                         "b", "a", "d">>

\* C25: requests in flight together do not interfere: under every
\* interleaving of their spawn, data and close events, the text a request has
\* collected is the text its own child has written, and the stdout, stderr
\* and exit code of its result are those of its own child.
C25_RequestsDoNotInterfere ==
  \A r \in Requests :
    /\ (req[r].pc = "waiting" /\ req[r].inv.call = "spawn")
         => /\ req[r].stdout = Utf8Decode(req[r].child.stdout)
            /\ req[r].stderr = Utf8Decode(req[r].child.stderr)
    /\ GlobalResult(r)
         => /\ req[r].stdout = Utf8Decode(req[r].child.stdout)
            /\ req[r].stderr
                 = formatErrorMessage(Utf8Decode(req[r].child.stderr),
                                      req[r].shell)
            /\ req[r].exitCode = req[r].child.code
    /\ (req[r].pc = "done" /\ req[r].api = "http"
           /\ req[r].outcome = "resolved")
         => /\ req[r].stdout
                 = processOutputOf(req[r].route,
                                   Utf8Decode(req[r].child.stdout))
            /\ req[r].stderr
                 = processOutputOf(req[r].route,
                                   Utf8Decode(req[r].child.stderr))
            /\ req[r].child.code = 0

\* the second request got its chunks and its close event while the first,
\* which had got a chunk of its own, was still waiting
C25_Witness ==
  \E r, q \in Requests :
    /\ r < q
    /\ req[r].pc = "waiting" /\ req[r].stdout = <<"a">>
    /\ GlobalResult(q) /\ req[q].stdout = <<"b">> /\ req[q].stderr = <<"e">>

\* the text of big-endian UTF-16 bytes
Utf16beDecode(b) ==
  [i \in 1..(Len(b) \div 2) |-> FromCharCode(256 * b[2 * i - 1] + b[2 * i])]

\* the text of the bytes without their byte-order mark, the mark looked for
\* in the order UTF-8, UTF-16LE, UTF-16BE; bytes without a mark are UTF-8
WithoutDetectedBom(bytes) ==
  IF StartsWith(bytes, Utf8Bom) THEN Utf8Decode(SubSeq(bytes, 4, Len(bytes)))
  ELSE IF StartsWith(bytes, Utf16leBom)
    THEN Utf16leDecode(SubSeq(bytes, 3, Len(bytes)))
  ELSE IF StartsWith(bytes, Utf16beBom)
    THEN Utf16beDecode(SubSeq(bytes, 3, Len(bytes)))
  ELSE Utf8Decode(bytes)

\* the request asked for a file that is allowed, exists and is not too large
ReadableFile(r) ==
  /\ req[r].pc = "done"
  /\ req[r].api = "read"
  /\ req[r].command # <<>>
  /\ installedIsPathAllowed(fileHelpers, req[r].command, platform)
  /\ pathNormalize(req[r].command, platform) \in DOMAIN disk.files
  /\ disk.files[pathNormalize(req[r].command, platform)].size <= maxFileSize

\* C22 (as claimed): on every path that handles a byte-order mark, GET
\* /files/read and the processOutput of the three branches of
\* commandHelpers.executeCommand, the text delivered is the text of the input
\* with exactly the detected mark removed: the UTF-8 mark EF BB BF, then the
\* UTF-16LE mark FF FE, then the UTF-16BE mark FE FF, and input without a mark
\* taken as UTF-8.
C22_DetectedBomIsRemoved ==
  \A r \in Requests :
    /\ ReadableFile(r)
         => /\ req[r].status = 200
            /\ req[r].content
                 = WithoutDetectedBom(
                     disk.files[pathNormalize(req[r].command, platform)].bytes)
    /\ (req[r].pc = "done" /\ "processOutput" \in req[r].normalized)
         => /\ req[r].stdout = WithoutDetectedBom(req[r].child.stdout)
            /\ req[r].stderr = WithoutDetectedBom(req[r].child.stderr)

-----------------------------------------------------------------------------
(* Claims about paths, files, the configuration and the watchers *)

\* the segments of the normalized path, lower-cased on win32, where names
\* differ by more than their case
PathSegments(p, host) ==
  LET segs == SelectSeq(SplitPath(pathNormalize(p, host), host),
                        LAMBDA seg : seg # <<>>)
  IN  IF host = "win32" THEN [i \in 1..Len(segs) |-> ToLowerCase(segs[i])]
      ELSE segs

\* p is an allowed path or an entry below one
InsideAllowedPath(p, host) ==
  \E allowedPath \in allowedPaths :
    LET a == PathSegments(allowedPath, host)
        s == PathSegments(p, host)
    IN  Len(a) <= Len(s) /\ SubSeq(s, 1, Len(a)) = a

\* the request of GET /files/read got past validateFilePath
PassedPathCheck(r) ==
  /\ req[r].pc = "done"
  /\ req[r].api = "read"
  /\ req[r].command # <<>>
  /\ req[r].error # "Access denied"

\* C29 (as claimed): whichever isPathAllowed the server has installed, a path
\* gets past it only when, normalized, it is an allowed path or an entry
\* below one: a sibling whose name starts with the text of an allowed path,
\* and a path that leaves the allowed path through '..', are rejected.
C29_OnlyPathsInsideAllowedPaths ==
  \A r \in Requests :
    PassedPathCheck(r) => InsideAllowedPath(req[r].command, platform)


\* the configuration and the options ask for a backup of the destination
BackupsEnabled ==
  /\ OptionIsNotFalse(fileOp.options, "createBackup")
  /\ config.enableBackups

\* a backup of the destination as it was when the operation was called
DestinationBackedUp ==
  \E b \in disk.backups :
    b.of = fileOp.dest /\ b.file = fileOp.destBefore[1]

\* the destination is as it was when the operation was called
DestinationUnchanged ==
  /\ fileOp.dest \in DOMAIN disk.files
  /\ disk.files[fileOp.dest] = fileOp.destBefore[1]

\* C26: when copyFile or moveFile overwrites an existing destination while
\* overwrite is not false and backups are enabled, a backup of the
\* destination has been made before; with overwrite false and an existing
\* destination the operation fails and leaves the destination as it was
C26_BackupBeforeOverwrite ==
  fileOp.kind \in {"copy", "move"} /\ fileOp.destBefore # <<>> =>
    /\ (/\ OptionIsNotFalse(fileOp.options, "overwrite")
        /\ BackupsEnabled
        /\ fileOp.wrote)
         => DestinationBackedUp
    /\ ~OptionIsNotFalse(fileOp.options, "overwrite") =>
         /\ DestinationUnchanged
         /\ fileOp.pc = "done" => fileOp.success = FALSE

\* C28: every name applyPlatformSpecificConfig has added to
\* security.allowedCommands is accepted by isCommandAllowed as the leading
\* token of a command, the list having no '*'
C28_AddedCommandsAreAccepted ==
  \A name \in config.added :
    /\ Star \notin config.allowedCommands
    /\ isCommandAllowed(config, name)
    /\ isCommandAllowed(config, name \o <<" ", "-", "x">>)

\* the listeners made for a watcher
ListenersOf(listeners, watcherId) ==
  {l \in listeners : l.watcherId = watcherId}

\* C30: the listeners attached to fileWatcher are exactly those recorded in
\* activeListeners, every key of activeListeners is the id of a watcher, and
\* after a successful unwatchPath or unwatchAll no listener of a stopped
\* watcher is attached or recorded
C30_ListenersMatchActiveListeners ==
  /\ watch.attached = RecordedListeners(watch.active)
  /\ DOMAIN watch.active \subseteq watch.watchers
  /\ \A k \in DOMAIN watch.active :
       ListenersOf(Elements(watch.active[k]), k) = Elements(watch.active[k])
  /\ (watch.last.tool = "unwatchPath" /\ ~watch.last.isError) =>
       /\ watch.last.watcherId \notin watch.watchers
       /\ watch.last.watcherId \notin DOMAIN watch.active
       /\ ListenersOf(watch.attached, watch.last.watcherId) = {}
  /\ watch.last.tool = "unwatchAll" =>
       watch.watchers = {} /\ watch.attached = {} /\ watch.active = <<>>

\* a watcher was stopped by unwatchPath while another watcher keeps its
\* listener
C30_Witness ==
  /\ watch.last.tool = "unwatchPath"
  /\ ~watch.last.isError
  /\ Cardinality(watch.attached) = 1
  /\ watch.watchers # {}

\* the child of request r has exited, overflowed the buffer or failed to
\* start
ChildEnded(r) == req[r].child.kind # "none"

\* C27: once the child of a request has exited, overflowed the buffer or
\* failed to start, the promise of the request is resolved or rejected
C27_EndedChildSettlesRequest ==
  \A r \in Requests :
    ChildEnded(r) =>
      /\ req[r].outcome \in {"resolved", "rejected"}
      /\ req[r].settled = 1
====
